---- MODULE Spec2Model ----
(***************************************************************************)
(* License server: the license store (app/db.py), the lifecycle            *)
(* operations (app/license_admin.py, app/admin.py, app/web_admin.py) and   *)
(* the lease decision (app/service.py), as a state machine.                *)
(*                                                                         *)
(* Text is a sequence of one-character strings, so that strip() and int()  *)
(* are computed.  An Optional value is a sequence of length 0 (None) or 1. *)
(* An aware UTC datetime at second precision is the number of seconds      *)
(* since 1970-01-01T00:00:00Z; an RFC 3339 text is the record of its       *)
(* printed fields.                                                         *)
(***************************************************************************)
EXTENDS Integers, Sequences, FiniteSets, TLC

VARIABLES
    licenses,   \* the licenses table: license_key -> row
    now,        \* the wall clock read by utc_now()
    last,       \* the request just served: its arguments, its response and the
                \* table it found; Idle once the response is delivered
    calls       \* the create_license calls in progress, one per caller, when
                \* requests are served concurrently

vars == <<licenses, now, last, calls>>

----------------------------------------------------------------------------
(* Bounds of the model *)

\* the clock runs over the days 0..MaxDay after StartInstant
MaxDay == 2
\* the durations offered to create / reactivate / updateDuration are 0 (not
\* accepted), 1 (the shortest) and MaxDuration days
MaxDuration == 2

\* the drawn dates span this many years after the first
MaxYears == 1

\* the largest number of months added to a date
MaxMonths == 13

\* the largest step between two consecutive draws of one generated key
MaxStride == 2

----------------------------------------------------------------------------
(* Optional values and text *)

None == <<>>
Some(v) == <<v>>
IsNone(o) == o = <<>>
Value(o) == o[1]

Whitespace == {" ", "\t", "\n"}

RECURSIVE lstrip(_)
lstrip(s) ==
    IF s # <<>> /\ Head(s) \in Whitespace THEN lstrip(Tail(s)) ELSE s

RECURSIVE rstrip(_)
rstrip(s) ==
    IF s # <<>> /\ s[Len(s)] \in Whitespace
    THEN rstrip(SubSeq(s, 1, Len(s) - 1))
    ELSE s

\* str.strip()
strip(s) == rstrip(lstrip(s))

DigitChars == <<"0", "1", "2", "3", "4", "5", "6", "7", "8", "9">>

IsDigit(c) == \E i \in 1..10 : DigitChars[i] = c
DigitValue(c) == (CHOOSE i \in 1..10 : DigitChars[i] = c) - 1

RECURSIVE DigitsValue(_)
DigitsValue(s) ==
    IF s = <<>> THEN 0
    ELSE 10 * DigitsValue(SubSeq(s, 1, Len(s) - 1)) + DigitValue(s[Len(s)])

\* int(text): surrounding whitespace ignored, an optional sign, then digits;
\* anything else raises ValueError
ParseInt(s) ==
    LET t == strip(s)
        neg == t # <<>> /\ Head(t) = "-"
        body == IF t # <<>> /\ Head(t) \in {"-", "+"} THEN Tail(t) ELSE t
    IN  IF body = <<>> \/ \E i \in 1..Len(body) : ~IsDigit(body[i])
        THEN [raised |-> TRUE, value |-> 0]
        ELSE [raised |-> FALSE,
              value |-> IF neg THEN 0 - DigitsValue(body) ELSE DigitsValue(body)]

----------------------------------------------------------------------------
(* Clock and timestamp codec: app/service.py *)

SecondsPerDay == 86400

\* days since 1970-01-01 of a proleptic Gregorian date
DaysFromCivil(y, m, d) ==
    LET yy == IF m <= 2 THEN y - 1 ELSE y
        era == yy \div 400
        yoe == yy - era * 400
        mp == IF m > 2 THEN m - 3 ELSE m + 9
        doy == (153 * mp + 2) \div 5 + d - 1
        doe == yoe * 365 + yoe \div 4 - yoe \div 100 + doy
    IN  era * 146097 + doe - 719468

\* the proleptic Gregorian date of a day number
CivilFromDays(z) ==
    LET zz == z + 719468
        era == zz \div 146097
        doe == zz - era * 146097
        yoe == (doe - doe \div 1460 + doe \div 36524 - doe \div 146096) \div 365
        doy == doe - (365 * yoe + yoe \div 4 - yoe \div 100)
        mp == (5 * doy + 2) \div 153
        d == doy - (153 * mp + 2) \div 5 + 1
        m == IF mp < 10 THEN mp + 3 ELSE mp - 9
        y == yoe + era * 400 + (IF m <= 2 THEN 1 ELSE 0)
    IN  [year |-> y, month |-> m, day |-> d]

\* datetime(year, month, day, hour, minute, second, tzinfo=utc)
DateTime(y, mo, d, h, mi, s) ==
    DaysFromCivil(y, mo, d) * SecondsPerDay + h * 3600 + mi * 60 + s

\* the fields of an aware UTC datetime
Fields(t) ==
    LET days == t \div SecondsPerDay
        secs == t % SecondsPerDay
        c == CivilFromDays(days)
    IN  [year |-> c.year, month |-> c.month, day |-> c.day,
         hour |-> secs \div 3600, minute |-> (secs % 3600) \div 60,
         second |-> secs % 60]

\* value + timedelta(days=d, seconds=s)
AddDelta(t, d, s) == t + d * SecondsPerDay + s

\* (variant) the timestamp is printed to the minute
to_rfc3339_Minutes(value) ==
    LET f == Fields(value)
    IN  [year |-> f.year, month |-> f.month, day |-> f.day,
         hour |-> f.hour, minute |-> f.minute, second |-> 0,
         offset |-> "Z"]

\* isoformat() of a UTC datetime with "+00:00" replaced by "Z"
to_rfc3339(value) ==
    LET f == Fields(value)
    IN  [year |-> f.year, month |-> f.month, day |-> f.day,
         hour |-> f.hour, minute |-> f.minute, second |-> f.second,
         offset |-> "Z"]

\* the utcoffset() of the offsets the timestamps carry, in seconds
OffsetSeconds(offset) ==
    CASE offset = "+00:00" -> 0
      [] offset = "+02:00" -> 2 * 3600
      [] offset = "-05:30" -> 0 - (5 * 3600 + 30 * 60)

\* fromisoformat() after "Z" -> "+00:00"; text without an offset is naive
\* and raises ValueError; astimezone(utc) subtracts the offset
parse_rfc3339(text) ==
    LET offset == IF text.offset = "Z" THEN "+00:00" ELSE text.offset
    IN  IF offset = "naive"
        THEN [raised |-> TRUE, value |-> 0]
        ELSE [raised |-> FALSE,
              value |-> DateTime(text.year, text.month, text.day,
                                 text.hour, text.minute, text.second)
                        - OffsetSeconds(offset)]

\* the first instant of the model's clock: 2024-01-01T00:00:00Z
StartInstant == DateTime(2024, 1, 1, 0, 0, 0)

\* the instants the clock takes: the start, and the last second, of each day
Instants ==
    { StartInstant + d * SecondsPerDay + o : d \in 0..MaxDay,
                                             o \in {0, SecondsPerDay - 1} }

\* utc_now(): the clock, truncated to the second
utc_now == now

----------------------------------------------------------------------------
(* Remaining-time decomposition: app/service.py *)

IsLeap(y) == (y % 4 = 0 /\ y % 100 # 0) \/ y % 400 = 0

\* calendar.monthrange(year, month)[1]
DaysInMonth(y, m) ==
    IF m = 2 THEN (IF IsLeap(y) THEN 29 ELSE 28)
    ELSE IF m \in {4, 6, 9, 11} THEN 30 ELSE 31

Min(a, b) == IF a <= b THEN a ELSE b
Max(a, b) == IF a >= b THEN a ELSE b

\* (variant) the day of the month is kept, and a day past the end of the
\* target month runs into the month after it
_add_months_Rollover(value, months) ==
    LET f == Fields(value)
        total == (f.month - 1) + months
    IN  DateTime(f.year + total \div 12, (total % 12) + 1, f.day, f.hour,
                 f.minute, f.second)

\* (variant) the whole years of `months` are dropped
_add_months_MonthOnly(value, months) ==
    LET f == Fields(value)
        total == (f.month - 1) + (months % 12)
        year == f.year + total \div 12
        month == (total % 12) + 1
    IN  DateTime(year, month, Min(f.day, DaysInMonth(year, month)), f.hour,
                 f.minute, f.second)

\* _add_months(value, months), months >= 0: the day is clamped to the
\* last day of the target month, the time of day is kept
_add_months(value, months) ==
    LET f == Fields(value)
        total == (f.month - 1) + months
        year == f.year + total \div 12
        month == (total % 12) + 1
        day == Min(f.day, DaysInMonth(year, month))
    IN  DateTime(year, month, day, f.hour, f.minute, f.second)

\* one of the two greedy loops of split_remaining_time: advance the cursor
\* by `step` months while the advance does not pass expires_at
RECURSIVE Consume(_, _, _, _)
RECURSIVE ConsumeNext(_, _, _, _, _)
ConsumeNext(cursor, next_cursor, expires_at, step, count) ==
    IF next_cursor > expires_at
    THEN [cursor |-> cursor, count |-> count]
    ELSE Consume(next_cursor, expires_at, step, count + 1)

Consume(cursor, expires_at, step, count) ==
    ConsumeNext(cursor, _add_months(cursor, step), expires_at, step, count)

\* (variant) the hours are taken from the whole residual, not from what
\* the days leave
SplitSeconds_TotalHours(years, months, remaining_seconds) ==
    [years |-> years, months |-> months,
     days |-> remaining_seconds \div SecondsPerDay,
     hours |-> remaining_seconds \div 3600,
     minutes |-> ((remaining_seconds % SecondsPerDay) % 3600) \div 60,
     seconds |-> ((remaining_seconds % SecondsPerDay) % 3600) % 60]

\* the fixed-radix split of the residual seconds
SplitSeconds(years, months, remaining_seconds) ==
    [years |-> years, months |-> months,
     days |-> remaining_seconds \div SecondsPerDay,
     hours |-> (remaining_seconds % SecondsPerDay) \div 3600,
     minutes |-> ((remaining_seconds % SecondsPerDay) % 3600) \div 60,
     seconds |-> ((remaining_seconds % SecondsPerDay) % 3600) % 60]

\* the month loop, entered with the result of the year loop
SplitMonths(years, months, expires_at) ==
    SplitSeconds(years.count, months.count, Max(0, expires_at - months.cursor))

SplitYears(years, expires_at) ==
    SplitMonths(years, Consume(years.cursor, expires_at, 1, 0), expires_at)

\* (variant) the signed difference is split, with no calendar and no floor
split_remaining_time_Signed(now_, expires_at) ==
    SplitSeconds(0, 0, expires_at - now_)

split_remaining_time(now_, expires_at) ==
    IF expires_at <= now_
    THEN [years |-> 0, months |-> 0, days |-> 0,
          hours |-> 0, minutes |-> 0, seconds |-> 0]
    ELSE SplitYears(Consume(now_, expires_at, 12, 0), expires_at)

----------------------------------------------------------------------------
(* The licenses table: app/db.py *)

StatusType == {"active", "disabled"}

\* LicenseRecord
LicenseRecord(license_key, issued_at, duration_days, status, note) ==
    [license_key |-> license_key, issued_at |-> issued_at,
     duration_days |-> duration_days, status |-> status, note |-> note]

\* (variant) the table has no CHECK on duration_days
RowChecks_StatusOnly(row) == row.status \in StatusType

\* the CHECK constraints of the table
RowChecks(row) == row.duration_days >= 1 /\ row.status \in StatusType

\* init_db on a new database file: the empty table
init_db == << >>

\* (variant) the SELECT has no WHERE clause: the first row is returned
get_license_FirstRow(db, key) ==
    IF DOMAIN db = {} THEN None
    ELSE Some(db[CHOOSE k \in DOMAIN db : TRUE])

\* get_license: the row of the key, or None
get_license(db, key) == IF key \in DOMAIN db THEN Some(db[key]) ELSE None

\* (variant) license_key is not a PRIMARY KEY: an INSERT under a key that
\* is present does not raise
insert_license_NoPrimaryKey(db, record) ==
    IF ~RowChecks(record)
    THEN [db |-> db, raised |-> TRUE]
    ELSE [db |-> db @@ (record.license_key :> record), raised |-> FALSE]

\* (variant) INSERT OR REPLACE: an existing row is overwritten
insert_license_Replace(db, record) ==
    IF ~RowChecks(record)
    THEN [db |-> db, raised |-> TRUE]
    ELSE [db |-> [k \in DOMAIN db \cup {record.license_key} |->
                     IF k = record.license_key THEN record ELSE db[k]],
          raised |-> FALSE]

\* insert_license: the PRIMARY KEY and CHECK constraints raise
\* sqlite3.IntegrityError and insert nothing
insert_license(db, record) ==
    IF record.license_key \in DOMAIN db \/ ~RowChecks(record)
    THEN [db |-> db, raised |-> TRUE]
    ELSE [db |-> db @@ (record.license_key :> record), raised |-> FALSE]

\* (variant) the result is rowcount >= 0: true also when no row matched
UpdateRow_AlwaysTrue(db, key, row) ==
    IF key \notin DOMAIN db
    THEN [db |-> db, raised |-> FALSE, result |-> TRUE]
    ELSE IF ~RowChecks(row)
    THEN [db |-> db, raised |-> TRUE, result |-> FALSE]
    ELSE [db |-> [db EXCEPT ![key] = row], raised |-> FALSE, result |-> TRUE]

\* an UPDATE ... WHERE license_key = key that turns the row into `row`:
\* rowcount is 0 when no row matches; a CHECK failure raises and writes nothing
UpdateRow(db, key, row) ==
    IF key \notin DOMAIN db
    THEN [db |-> db, raised |-> FALSE, result |-> FALSE]
    ELSE IF ~RowChecks(row)
    THEN [db |-> db, raised |-> TRUE, result |-> FALSE]
    ELSE [db |-> [db EXCEPT ![key] = row], raised |-> FALSE, result |-> TRUE]

\* the columns written by _set_license_status
StatusRow(row, status) == [row EXCEPT !.status = status]

_set_license_status(db, key, status) ==
    UpdateRow(db, key, IF key \in DOMAIN db THEN StatusRow(db[key], status) ELSE None)

disable_license(db, key) == _set_license_status(db, key, "disabled")

enable_license(db, key) == _set_license_status(db, key, "active")

\* (variant) SET issued_at = ?, duration_days = ? without status = 'active'
ReactivateRow_KeepsStatus(row, issued_at, duration_days) ==
    [row EXCEPT !.issued_at = issued_at, !.duration_days = duration_days]

\* the columns written by reactivate_license
ReactivateRow(row, issued_at, duration_days) ==
    [row EXCEPT !.issued_at = issued_at, !.duration_days = duration_days,
                !.status = "active"]

reactivate_license(db, key, issued_at, duration_days) ==
    UpdateRow(db, key,
              IF key \in DOMAIN db
              THEN ReactivateRow(db[key], issued_at, duration_days) ELSE None)

\* (variant) the UPDATE also sets status = 'active'
DurationRow_Activates(row, issued_at, duration_days) ==
    [row EXCEPT !.issued_at = issued_at, !.duration_days = duration_days,
                !.status = "active"]

\* (variant) the UPDATE sets duration_days only
DurationRow_DaysOnly(row, issued_at, duration_days) ==
    [row EXCEPT !.duration_days = duration_days]

\* the columns written by update_license_duration
DurationRow(row, issued_at, duration_days) ==
    [row EXCEPT !.issued_at = issued_at, !.duration_days = duration_days]

update_license_duration(db, key, issued_at, duration_days) ==
    UpdateRow(db, key,
              IF key \in DOMAIN db
              THEN DurationRow(db[key], issued_at, duration_days) ELSE None)

----------------------------------------------------------------------------
(* Lease decision: app/service.py, app/main.py, app/settings.py *)

\* TOKEN_TTL_SECONDS, the deployment-wide lease lifetime
TOKEN_TTL_SECONDS == 86400

\* an exception that leaves the handler
Raised(exception) == [exception |-> exception]

\* (variant) an unknown key is answered by an HTTP error instead of a response
_denied_NotFoundRaises(reason, now_) ==
    IF reason = "not_found" THEN Raised("HTTPException")
    ELSE [allowed |-> FALSE, reason |-> reason,
          server_time |-> to_rfc3339(now_)]

_denied(reason, now_) ==
    [allowed |-> FALSE, reason |-> reason, server_time |-> to_rfc3339(now_)]

\* (variant) the lifetime is taken in minutes: timedelta(minutes=ttl)
LeaseInfo_Minutes(lease_id, now_, token_ttl_seconds) ==
    [lease_id |-> lease_id,
     issued_at |-> to_rfc3339(now_),
     expires_at |-> to_rfc3339(AddDelta(now_, 0, token_ttl_seconds * 60))]

\* LeaseInfo of an allowed response
LeaseInfo(lease_id, now_, token_ttl_seconds) ==
    LET lease_issued_at == now_
        lease_expires_at == AddDelta(lease_issued_at, 0, token_ttl_seconds)
    IN  [lease_id |-> lease_id,
         issued_at |-> to_rfc3339(lease_issued_at),
         expires_at |-> to_rfc3339(lease_expires_at)]

\* LicenseInfo of an allowed response
LicenseInfo(record, issued_at, license_expires_dt, now_) ==
    [license_key |-> record.license_key,
     issued_at |-> to_rfc3339(issued_at),
     duration_days |-> record.duration_days,
     license_expires_at |-> to_rfc3339(license_expires_dt),
     remaining_time |-> split_remaining_time(now_, license_expires_dt)]

\* (variant) the window still counts as open at the instant it ends
WindowLapsed_Strict(now_, license_expires_dt) == now_ > license_expires_dt

\* the expiry test of issue_token
WindowLapsed(now_, license_expires_dt) == now_ >= license_expires_dt

\* issue_token once the row is parsed: the expiry test and the allowed response
DecideWindow(record, issued_at, license_expires_dt, now_, token_ttl_seconds, lease_id) ==
    IF WindowLapsed(now_, license_expires_dt) THEN _denied("expired", now_)
    ELSE [allowed |-> TRUE,
          lease |-> LeaseInfo(lease_id, now_, token_ttl_seconds),
          license |-> LicenseInfo(record, issued_at, license_expires_dt, now_),
          token_ttl_seconds |-> token_ttl_seconds,
          server_time |-> to_rfc3339(now_)]

\* (variant) the window is tested before the status
DecideRecord_ExpiryFirst(record, issued_at, now_, token_ttl_seconds, lease_id) ==
    IF issued_at.raised THEN Raised("ValueError")
    ELSE IF WindowLapsed(now_, AddDelta(issued_at.value, record.duration_days, 0))
    THEN _denied("expired", now_)
    ELSE IF record.status = "disabled" THEN _denied("disabled", now_)
    ELSE DecideWindow(record, issued_at.value,
                      AddDelta(issued_at.value, record.duration_days, 0),
                      now_, token_ttl_seconds, lease_id)

\* (variant) the status is not tested
DecideRecord_IgnoresStatus(record, issued_at, now_, token_ttl_seconds, lease_id) ==
    IF issued_at.raised THEN Raised("ValueError")
    ELSE DecideWindow(record, issued_at.value,
                      AddDelta(issued_at.value, record.duration_days, 0),
                      now_, token_ttl_seconds, lease_id)

\* issue_token once the row is read: the status test, then the window
DecideRecord(record, issued_at, now_, token_ttl_seconds, lease_id) ==
    IF record.status = "disabled" THEN _denied("disabled", now_)
    ELSE IF issued_at.raised THEN Raised("ValueError")
    ELSE DecideWindow(record, issued_at.value,
                      AddDelta(issued_at.value, record.duration_days, 0),
                      now_, token_ttl_seconds, lease_id)

\* issue_token once the clock and the table are read
DecideFound(found, now_, token_ttl_seconds, lease_id) ==
    IF IsNone(found) THEN _denied("not_found", now_)
    ELSE DecideRecord(Value(found), parse_rfc3339(Value(found).issued_at),
                      now_, token_ttl_seconds, lease_id)

\* issue_token: reads the clock once, reads the row, decides; writes nothing
issue_token(db, token_ttl_seconds, license_key, lease_id) ==
    DecideFound(get_license(db, license_key), utc_now, token_ttl_seconds,
                lease_id)

\* (variant) an issued lease is written into the note of the license
create_token_RecordsLease(db, license_key, lease_id) ==
    [db |-> IF license_key \in DOMAIN db
               /\ issue_token(db, TOKEN_TTL_SECONDS, license_key, lease_id).allowed
            THEN [db EXCEPT ![license_key].note = Some(<<"l">>)]
            ELSE db,
     resp |-> issue_token(db, TOKEN_TTL_SECONDS, license_key, lease_id)]

\* POST /v1/token
create_token(db, license_key, lease_id) ==
    [db |-> db,
     resp |-> issue_token(db, TOKEN_TTL_SECONDS, license_key, lease_id)]

----------------------------------------------------------------------------
(* Key generation and creation: app/license_admin.py *)

KEY_ALPHABET ==
    <<"A", "B", "C", "D", "E", "F", "G", "H", "J", "K", "L", "M", "N", "P",
      "Q", "R", "S", "T", "U", "V", "W", "X", "Y", "Z", "2", "3", "4", "5",
      "6", "7", "8", "9">>
KEY_SEGMENT_LENGTH == 4
KEY_SEGMENTS == 3
KEY_GENERATION_ATTEMPTS == 100

\* "-".join(segments)
RECURSIVE Join(_)
Join(segments) ==
    IF Len(segments) = 0 THEN <<>>
    ELSE IF Len(segments) = 1 THEN segments[1]
    ELSE segments[1] \o <<"-">> \o Join(Tail(segments))

\* (variant) the segments are joined without a separator
generate_key_Unseparated(choices) ==
    [i \in 1..(KEY_SEGMENTS * KEY_SEGMENT_LENGTH) |-> KEY_ALPHABET[choices[i]]]

\* generate_key(): `choices` are the positions random.choice draws in
\* KEY_ALPHABET, KEY_SEGMENTS * KEY_SEGMENT_LENGTH of them in order
generate_key(choices) ==
    Join([i \in 1..KEY_SEGMENTS |->
            [j \in 1..KEY_SEGMENT_LENGTH |->
                KEY_ALPHABET[choices[(i - 1) * KEY_SEGMENT_LENGTH + j]]]])

\* what create_license returns: the table, the exception raised ("" on
\* return), its message and the record returned
Created(db, record) ==
    [db |-> db, raised |-> "", record |-> Some(record), message |-> ""]
CreateRaised(db, exception, message) ==
    [db |-> db, raised |-> exception, record |-> None, message |-> message]

\* the record create_license tries to insert at an attempt of its retry
\* loop: generated[i] is the key generate_key() returns at attempt i
Candidate(issued_at, days, note, generated, attempt) ==
    LicenseRecord(generated[attempt], issued_at, days, "active", note)

\* the retry loop of create_license leaves at the first attempt whose insert
\* does not raise IntegrityError: the attempts before it have all raised
FirstInserted(db, issued_at, days, note, generated) ==
    CHOOSE a \in 1..KEY_GENERATION_ATTEMPTS :
        /\ ~insert_license(db, Candidate(issued_at, days, note, generated, a)).raised
        /\ \A b \in 1..(a - 1) :
              insert_license(db, Candidate(issued_at, days, note, generated, b)).raised

\* the retry loop returns the record it inserted
InsertedAt(db, candidate) == Created(insert_license(db, candidate).db, candidate)

\* (variant) once every attempt has raised, the last candidate is returned
InsertGenerated_ReturnsColliding(db, issued_at, days, note, generated) ==
    IF \A a \in 1..KEY_GENERATION_ATTEMPTS :
          insert_license(db, Candidate(issued_at, days, note, generated, a)).raised
    THEN Created(db, Candidate(issued_at, days, note, generated,
                               KEY_GENERATION_ATTEMPTS))
    ELSE InsertedAt(db, Candidate(issued_at, days, note, generated,
                        FirstInserted(db, issued_at, days, note, generated)))

\* the retry loop of create_license: RuntimeError once every attempt has raised
InsertGenerated(db, issued_at, days, note, generated) ==
    IF \A a \in 1..KEY_GENERATION_ATTEMPTS :
          insert_license(db, Candidate(issued_at, days, note, generated, a)).raised
    THEN CreateRaised(db, "RuntimeError",
                      "Failed to generate a unique license key")
    ELSE InsertedAt(db, Candidate(issued_at, days, note, generated,
                        FirstInserted(db, issued_at, days, note, generated)))

\* (variant) the IntegrityError of the explicit-key insert is swallowed
InsertExplicit_Swallows(db, record, ins) == Created(ins.db, record)

\* the explicit-key branch of create_license: the IntegrityError of the
\* insert is not caught
InsertExplicit(db, record, ins) ==
    IF ins.raised THEN CreateRaised(db, "IntegrityError", "")
    ELSE Created(ins.db, record)

\* note if note else None
NormalizedNote(note) == IF IsNone(note) \/ Value(note) = <<>> THEN None ELSE note

\* (variant) the explicit key is tested trimmed but stored as given
CreateWithKey_Untrimmed(db, days, key, issued_at_rfc3339, normalized_note, generated) ==
    IF ~IsNone(key)
    THEN IF strip(Value(key)) = <<>>
         THEN CreateRaised(db, "ValueError", "--key must be non-empty")
         ELSE InsertExplicit(db,
                  LicenseRecord(Value(key), issued_at_rfc3339, days,
                                "active", normalized_note),
                  insert_license(db,
                      LicenseRecord(Value(key), issued_at_rfc3339, days,
                                    "active", normalized_note)))
    ELSE InsertGenerated(db, issued_at_rfc3339, days, normalized_note,
                         generated)

\* (variant) the explicit key is trimmed but not tested for being empty
CreateWithKey_NoBlankCheck(db, days, key, issued_at_rfc3339, normalized_note, generated) ==
    IF ~IsNone(key)
    THEN InsertExplicit(db,
             LicenseRecord(strip(Value(key)), issued_at_rfc3339, days,
                           "active", normalized_note),
             insert_license(db,
                 LicenseRecord(strip(Value(key)), issued_at_rfc3339, days,
                               "active", normalized_note)))
    ELSE InsertGenerated(db, issued_at_rfc3339, days, normalized_note,
                         generated)

\* create_license once days is accepted
CreateWithKey(db, days, key, issued_at_rfc3339, normalized_note, generated) ==
    IF ~IsNone(key)
    THEN IF strip(Value(key)) = <<>>
         THEN CreateRaised(db, "ValueError", "--key must be non-empty")
         ELSE InsertExplicit(db,
                  LicenseRecord(strip(Value(key)), issued_at_rfc3339, days,
                                "active", normalized_note),
                  insert_license(db,
                      LicenseRecord(strip(Value(key)), issued_at_rfc3339, days,
                                    "active", normalized_note)))
    ELSE InsertGenerated(db, issued_at_rfc3339, days, normalized_note,
                         generated)

\* create_license(db_path, days=, key=, note=)
create_license(db, days, key, note, generated) ==
    IF days < 1
    THEN CreateRaised(db, "ValueError", "--days must be >= 1")
    ELSE CreateWithKey(db, days, key, to_rfc3339(utc_now),
                       NormalizedNote(note), generated)

\* format_license(record)
format_license(record) ==
    LET issued_at == parse_rfc3339(record.issued_at).value
        license_expires_at == AddDelta(issued_at, record.duration_days, 0)
    IN  [license_key |-> record.license_key,
         issued_at |-> to_rfc3339(issued_at),
         duration_days |-> record.duration_days,
         license_expires_at |-> to_rfc3339(license_expires_at),
         status |-> record.status,
         note |-> record.note]

----------------------------------------------------------------------------
(* Command line: app/admin.py *)

CliResult(exit, stdout, stderr) ==
    [exit |-> exit, stdout |-> stdout, stderr |-> stderr]

\* the exit code and output of create-license for an outcome of create_license
CliCreated(made) ==
    [db |-> made.db,
     resp |->
        IF made.raised = "ValueError" THEN CliResult(2, None, made.message)
        ELSE IF made.raised = "IntegrityError"
        THEN CliResult(1, None, "License key already exists")
        ELSE IF made.raised = "RuntimeError"
        THEN CliResult(1, None, made.message)
        ELSE CliResult(0, Some(format_license(Value(made.record))), "")]

\* create-license --days D [--key K] [--note N]
_handle_create_license(db, days, key, note, generated) ==
    CliCreated(create_license(db, days, key, note, generated))

\* the exit code and output of disable-license / enable-license
CliStatusSet(done, key, status) ==
    [db |-> done.db,
     resp |-> IF ~done.result
              THEN CliResult(1, None, "License key not found")
              ELSE CliResult(0, Some([license_key |-> key,
                                      status |-> status]), "")]

\* disable-license --key K
_handle_disable_license(db, key) ==
    CliStatusSet(disable_license(db, key), key, "disabled")

\* enable-license --key K
_handle_enable_license(db, key) ==
    CliStatusSet(enable_license(db, key), key, "active")

----------------------------------------------------------------------------
(* Admin panel: app/web_admin.py *)

\* _redirect_to_dashboard(request, message=) / (request, error=)
RedirectMessage(text) == [status_code |-> 303, message |-> text, error |-> ""]
RedirectError(text) == [status_code |-> 303, message |-> "", error |-> text]

\* value or "" / value or None
OrEmpty(o) == IF IsNone(o) THEN <<>> ELSE Value(o)
OrNone(s) == IF s = <<>> THEN None ELSE Some(s)

\* the redirect of POST /admin/licenses for an outcome of create_license
WebCreated(made) ==
    [db |-> made.db,
     resp |->
        IF made.raised = "ValueError" THEN RedirectError(made.message)
        ELSE IF made.raised = "IntegrityError"
        THEN RedirectError("License key already exists")
        ELSE IF made.raised = "RuntimeError"
        THEN RedirectError(made.message)
        ELSE RedirectMessage("License created")]

\* create_license_view once the days field is read
CreateWithDays(db, days, key_raw, note_raw, generated) ==
    IF days.raised
    THEN [db |-> db, resp |-> RedirectError("Days must be an integer.")]
    ELSE WebCreated(create_license(db, days.value, OrNone(key_raw),
                                   OrNone(note_raw), generated))

\* POST /admin/licenses with the form fields days, key, note
create_license_view(db, days_form, key_form, note_form, generated) ==
    CreateWithDays(db, ParseInt(strip(days_form)), strip(key_form),
                   strip(note_form), generated)

\* the redirect of a status write
WebStatusSet(done, text) ==
    [db |-> done.db,
     resp |-> IF ~done.result THEN RedirectError("License key not found")
              ELSE RedirectMessage(text)]

\* POST /admin/licenses/{license_key}/disable
disable_license_view(db, license_key) ==
    WebStatusSet(disable_license(db, license_key), "License disabled")

\* the redirect of the reactivation write
WebReactivated(done) ==
    [db |-> done.db,
     resp |-> IF done.raised THEN Raised("IntegrityError")
              ELSE IF ~done.result THEN RedirectError("License key not found")
              ELSE RedirectMessage("License reactivated")]

\* enable_license_view on a lapsed window: a duration is required
ReactivateWithDays(db, license_key, now_, days_raw, duration_days) ==
    IF days_raw = <<>>
    THEN [db |-> db,
          resp |-> RedirectError("License is expired. Select a duration (days) before enabling")]
    ELSE IF duration_days.raised
    THEN [db |-> db, resp |-> RedirectError("Days must be an integer.")]
    ELSE IF duration_days.value < 1
    THEN [db |-> db, resp |-> RedirectError("Days must be >= 1.")]
    ELSE WebReactivated(reactivate_license(db, license_key, to_rfc3339(now_),
                                           duration_days.value))

\* (variant) a supplied duration reactivates whether or not the window lapsed
EnableRecord_DaysWin(db, license_key, days, record, now_, issued_at) ==
    IF issued_at.raised THEN [db |-> db, resp |-> Raised("ValueError")]
    ELSE IF now_ >= AddDelta(issued_at.value, record.duration_days, 0)
            \/ strip(OrEmpty(days)) # <<>>
    THEN ReactivateWithDays(db, license_key, now_, strip(OrEmpty(days)),
                            ParseInt(strip(OrEmpty(days))))
    ELSE WebStatusSet(enable_license(db, license_key), "License enabled")

\* enable_license_view once the row is read
EnableRecord(db, license_key, days, record, now_, issued_at) ==
    IF issued_at.raised THEN [db |-> db, resp |-> Raised("ValueError")]
    ELSE IF now_ >= AddDelta(issued_at.value, record.duration_days, 0)
    THEN ReactivateWithDays(db, license_key, now_, strip(OrEmpty(days)),
                            ParseInt(strip(OrEmpty(days))))
    ELSE WebStatusSet(enable_license(db, license_key), "License enabled")

\* enable_license_view once the table is read
EnableFound(db, license_key, days, found) ==
    IF IsNone(found)
    THEN [db |-> db, resp |-> RedirectError("License key not found")]
    ELSE EnableRecord(db, license_key, days, Value(found), utc_now,
                      parse_rfc3339(Value(found).issued_at))

\* POST /admin/licenses/{license_key}/enable with the optional form field days
enable_license_view(db, license_key, days) ==
    EnableFound(db, license_key, days, get_license(db, license_key))

----------------------------------------------------------------------------
(* Inputs of the requests *)

\* str(n) for n >= 0
RECURSIVE IntText(_)
IntText(n) ==
    IF n < 10 THEN <<DigitChars[n + 1]>>
    ELSE IntText(n \div 10) \o <<DigitChars[(n % 10) + 1]>>

\* two outcomes of the twelve random.choice draws of one generate_key()
ChoicesA == [i \in 1..(KEY_SEGMENTS * KEY_SEGMENT_LENGTH) |-> i]
ChoicesB == [i \in 1..(KEY_SEGMENTS * KEY_SEGMENT_LENGTH) |-> 20 + i]

KeyA == generate_key(ChoicesA)   \* ABCD-EFGH-JKLM
KeyB == generate_key(ChoicesB)   \* WXYZ-2345-6789

\* the keys generate_key() returns over the attempts of one create_license
\* call: one key at the first attempt and another at every later attempt
RngStreams ==
    { [a \in 1..KEY_GENERATION_ATTEMPTS |-> IF a = 1 THEN KeyA ELSE KeyB] }

Padded(s) == <<" ">> \o s \o <<" ">>

RequestKeys == {KeyA, KeyB}
LeaseIds == {"lease-1"}
DayInputs == {0, 1, MaxDuration}
CliKeyInputs == {None, Some(Padded(KeyA)), Some(<<" ">>)}
CliNoteInputs == {None, Some(<<"n">>)}
FormDayInputs == {IntText(d) : d \in DayInputs} \cup {<<"x">>}
FormKeyInputs == {<<>>, Padded(KeyA)}
FormNoteInputs == {<<" ">>}
EnableDayInputs == {None, Some(<<"x">>)} \cup {Some(IntText(d)) : d \in DayInputs}
\* the window starts offered to updateDuration: the current instant, or the
\* first instant of the clock
IssuedAtInputs == {to_rfc3339(utc_now), to_rfc3339(StartInstant)}

----------------------------------------------------------------------------
(* The license listing of the admin panel: app/db.py, app/service.py,       *)
(* app/web_admin.py                                                         *)

\* the characters of the stored keys in the order of their codes
CharOrder ==
    <<" ", "-", "0", "1", "2", "3", "4", "5", "6", "7", "8", "9",
      "A", "B", "C", "D", "E", "F", "G", "H", "I", "J", "K", "L", "M",
      "N", "O", "P", "Q", "R", "S", "T", "U", "V", "W", "X", "Y", "Z">>

CharCode(c) == CHOOSE i \in 1..Len(CharOrder) : CharOrder[i] = c

\* a < b for two texts, as the BINARY collation compares them
RECURSIVE TextLess(_, _)
TextLess(a, b) ==
    IF b = <<>> THEN FALSE
    ELSE IF a = <<>> THEN TRUE
    ELSE IF a[1] # b[1] THEN CharCode(a[1]) < CharCode(b[1])
    ELSE TextLess(Tail(a), Tail(b))

\* the rank of a stored timestamp among equally formatted timestamps: the
\* text order of the zero-padded fields is the order of the instants
TimestampRank(text) ==
    DateTime(text.year, text.month, text.day, text.hour, text.minute,
             text.second)

\* ORDER BY issued_at DESC, license_key ASC
ListedBefore(a, b) ==
    \/ TimestampRank(a.issued_at) > TimestampRank(b.issued_at)
    \/ /\ TimestampRank(a.issued_at) = TimestampRank(b.issued_at)
       /\ TextLess(a.license_key, b.license_key)

RECURSIVE Ordered(_, _)
Ordered(db, keys) ==
    IF keys = {} THEN <<>>
    ELSE LET first == CHOOSE k \in keys :
                          \A j \in keys \ {k} : ListedBefore(db[k], db[j])
         IN  <<db[first]>> \o Ordered(db, keys \ {first})

\* list_licenses(db_path)
list_licenses(db) == Ordered(db, DOMAIN db)

\* the units of format_remaining_time, in its order
Units ==
    <<[key |-> "years", suffix |-> <<"y">>],
      [key |-> "months", suffix |-> <<"m", "o">>],
      [key |-> "days", suffix |-> <<"d">>],
      [key |-> "hours", suffix |-> <<"h">>],
      [key |-> "minutes", suffix |-> <<"m">>],
      [key |-> "seconds", suffix |-> <<"s">>]>>

\* remaining_time.get(key, 0)
GetUnit(remaining_time, key) ==
    IF key \in DOMAIN remaining_time THEN remaining_time[key] ELSE 0

\* (variant) every unit is appended, zero or not
Part_KeepsZero(value, suffix) == <<IntText(value) \o suffix>>

\* if value > 0: parts.append(f"{value}{suffix}")
Part(value, suffix) ==
    IF value > 0 THEN <<IntText(value) \o suffix>> ELSE <<>>

\* the loop of format_remaining_time from unit i on
RECURSIVE Parts(_, _)
Parts(remaining_time, i) ==
    IF i > Len(Units) THEN <<>>
    ELSE Part(GetUnit(remaining_time, Units[i].key), Units[i].suffix)
         \o Parts(remaining_time, i + 1)

\* " ".join(parts)
RECURSIVE SpaceJoin(_)
SpaceJoin(parts) ==
    IF Len(parts) = 0 THEN <<>>
    ELSE IF Len(parts) = 1 THEN parts[1]
    ELSE parts[1] \o <<" ">> \o SpaceJoin(Tail(parts))

\* " ".join(parts) if parts else "0s"
Label(parts) == IF parts # <<>> THEN SpaceJoin(parts) ELSE <<"0", "s">>

\* format_remaining_time(remaining_time)
format_remaining_time(remaining_time) == Label(Parts(remaining_time, 1))

\* the payload of one record, given what the loop body derives from it
RowPayload(payload, remaining_time, is_expired, is_effectively_disabled) ==
    [license_key |-> payload.license_key,
     issued_at |-> payload.issued_at,
     duration_days |-> payload.duration_days,
     license_expires_at |-> payload.license_expires_at,
     status |-> payload.status,
     note |-> payload.note,
     remaining_time |-> remaining_time,
     remaining_time_label |-> format_remaining_time(remaining_time),
     is_expired |-> is_expired,
     display_status |->
         IF is_effectively_disabled THEN "disabled" ELSE "active",
     action_mode |-> IF is_effectively_disabled THEN "enable" ELSE "disable",
     requires_duration |-> is_expired]

\* (variant) the stored status is reported
RowExpiring_StoredStatus(record, payload, now_, expires_at) ==
    RowPayload(payload, split_remaining_time(now_, expires_at),
               now_ >= expires_at, record.status = "disabled")

\* the loop body once expires_at is parsed
RowExpiring(record, payload, now_, expires_at) ==
    RowPayload(payload, split_remaining_time(now_, expires_at),
               now_ >= expires_at,
               record.status = "disabled" \/ now_ >= expires_at)

\* the loop body once the record is formatted
RowOf(record, payload, now_) ==
    RowExpiring(record, payload, now_,
                parse_rfc3339(payload.license_expires_at).value)

\* the body of the loop of _build_license_rows for one record
LicenseRow(record, now_) == RowOf(record, format_license(record), now_)

\* the loop of _build_license_rows over the listed records
BuildRows(records, now_) ==
    [i \in 1..Len(records) |-> LicenseRow(records[i], now_)]

\* _build_license_rows(request, db_path)
_build_license_rows(db) == BuildRows(list_licenses(db), utc_now)

\* {"licenses": rows, "total": len(rows)}
Listing(db, rows) ==
    [db |-> db, resp |-> [licenses |-> rows, total |-> Len(rows)]]

\* list_licenses_view(request)
list_licenses_view(db) == Listing(db, _build_license_rows(db))

----------------------------------------------------------------------------
(* The state machine *)

NoArgs == [none |-> TRUE]
Idle == [op |-> "none", key |-> None, args |-> NoArgs, resp |-> NoArgs,
         pre |-> init_db]

\* the callers that run create_license concurrently
Callers == {1, 2}

\* a caller that has not called create_license
IdleCall ==
    [pc |-> "idle", before |-> {}, explicit |-> FALSE, attempt |-> 0,
     generated |-> << >>, candidate |-> None, raised |-> ""]

\* no create_license call is in progress
NoCalls == [c \in Callers |-> IdleCall]

\* a handler has run to completion: its writes are in the table and its
\* response is on record
Serve(op, key, args, out) ==
    /\ last = Idle
    /\ calls' = calls
    /\ licenses' = out.db
    /\ last' = [op |-> op, key |-> key, args |-> args, resp |-> out.resp,
                pre |-> licenses]
    /\ now' = now

Init ==
    /\ licenses = init_db
    /\ now = StartInstant
    /\ last = Idle
    /\ calls = NoCalls

\* the clock advances
Tick ==
    /\ last = Idle
    /\ \E t \in Instants : t > now /\ now' = t
    /\ UNCHANGED <<licenses, last, calls>>

\* the response of the request just served is delivered
Deliver ==
    /\ last # Idle
    /\ last' = Idle
    /\ UNCHANGED <<licenses, now, calls>>

IssueToken(key, lease_id) ==
    Serve("issue_token", Some(key), NoArgs,
          create_token(licenses, key, lease_id))

CliCreateLicense(days, key, note, rng) ==
    Serve("cli_create", key, [days |-> days, note |-> note],
          _handle_create_license(licenses, days, key, note, rng))

WebCreateLicense(days_form, key_form, note_form, rng) ==
    Serve("web_create", Some(key_form), [days |-> days_form, note |-> note_form],
          create_license_view(licenses, days_form, key_form, note_form, rng))

CliDisableLicense(key) ==
    Serve("cli_disable", Some(key), NoArgs,
          _handle_disable_license(licenses, key))

WebDisableLicense(key) ==
    Serve("web_disable", Some(key), NoArgs,
          disable_license_view(licenses, key))

CliEnableLicense(key) ==
    Serve("cli_enable", Some(key), NoArgs,
          _handle_enable_license(licenses, key))

WebEnableLicense(key, days) ==
    Serve("web_enable", Some(key), [days |-> days],
          enable_license_view(licenses, key, days))

\* what the caller of update_license_duration sees
DurationUpdated(done) ==
    [db |-> done.db,
     resp |-> IF done.raised THEN Raised("IntegrityError")
              ELSE [result |-> done.result]]

\* updateDuration(key, issuedAt, durationDays): update_license_duration
\* called with the caller's window
UpdateDuration(key, issued_at, duration_days) ==
    Serve("update_duration", Some(key),
          [issued_at |-> issued_at, days |-> duration_days],
          DurationUpdated(update_license_duration(licenses, key, issued_at,
                                                  duration_days)))

\* GET /admin/licenses
ListLicenses ==
    Serve("web_list", None, NoArgs, list_licenses_view(licenses))

Next ==
    \/ Tick
    \/ Deliver
    \/ \E key \in RequestKeys, lease_id \in LeaseIds : IssueToken(key, lease_id)
    \/ \E days \in DayInputs, key \in CliKeyInputs, note \in CliNoteInputs,
          rng \in RngStreams : CliCreateLicense(days, key, note, rng)
    \/ \E days \in FormDayInputs, key \in FormKeyInputs, note \in FormNoteInputs,
          rng \in RngStreams : WebCreateLicense(days, key, note, rng)
    \/ \E key \in RequestKeys : CliDisableLicense(key)
    \/ \E key \in RequestKeys : WebDisableLicense(key)
    \/ \E key \in RequestKeys : CliEnableLicense(key)
    \/ \E key \in RequestKeys, days \in EnableDayInputs :
          WebEnableLicense(key, days)
    \/ \E key \in RequestKeys, issued_at \in IssuedAtInputs,
          days \in DayInputs : UpdateDuration(key, issued_at, days)
    \/ ListLicenses

Spec == Init /\ [][Next]_vars

----------------------------------------------------------------------------
\* The properties of the lease decision and of the administrative operations.
\* In a state where last # Idle, last.pre is the table the request just served
\* found, licenses the table it left, and now the clock it read.

\* license_expires_dt of a stored row
WindowEnd(row) ==
    parse_rfc3339(row.issued_at).value + row.duration_days * SecondsPerDay

\* the window of a stored row has lapsed at instant t
Lapsed(row, t) == t >= WindowEnd(row)

\* the key of the request just served
LastKey == Value(last.key)

\* the request just served is a lease request
LeaseServed == last.op = "issue_token"

\* the request just served is a lease request for a stored license
LeaseServedFor(status) ==
    /\ LeaseServed
    /\ LastKey \in DOMAIN last.pre
    /\ last.pre[LastKey].status = status

\* C1: a lease request for a license that is both disabled and past its
\* window is denied with reason 'disabled', never 'expired'.
C1_DisabledBeforeExpired ==
    (LeaseServedFor("disabled") /\ Lapsed(last.pre[LastKey], now))
        => /\ DOMAIN last.resp = {"allowed", "reason", "server_time"}
           /\ last.resp.allowed = FALSE
           /\ last.resp.reason = "disabled"

C1_Witness ==
    /\ LeaseServedFor("disabled")
    /\ Lapsed(last.pre[LastKey], now)
    /\ last.resp.reason = "disabled"

\* C2: a lease request is allowed if and only if a record exists for the key,
\* its status is active and the clock is before issuedAt + durationDays days.
C2_AllowedIff ==
    LeaseServed =>
        /\ "allowed" \in DOMAIN last.resp
        /\ last.resp.allowed <=>
              /\ LastKey \in DOMAIN last.pre
              /\ last.pre[LastKey].status = "active"
              /\ now < WindowEnd(last.pre[LastKey])

C2_Witness ==
    /\ LeaseServed
    /\ last.resp.allowed
    /\ now > parse_rfc3339(last.pre[LastKey].issued_at).value

\* C3: for an active license issued at T0 with duration d, a lease request at
\* T0 <= t < T0 + d days is allowed and one at t >= T0 + d days, that instant
\* included, is denied with reason 'expired'; the table is not written, so
\* the change of outcome comes from the clock alone.
C3_WindowHalfOpen ==
    LeaseServedFor("active") =>
        /\ licenses = last.pre
        /\ (/\ parse_rfc3339(last.pre[LastKey].issued_at).value <= now
            /\ now < WindowEnd(last.pre[LastKey]))
              => /\ last.resp.allowed
                 /\ last.resp.license.license_expires_at
                        = to_rfc3339(WindowEnd(last.pre[LastKey]))
        /\ now >= WindowEnd(last.pre[LastKey])
              => /\ ~last.resp.allowed
                 /\ last.resp.reason = "expired"

C3_Witness ==
    /\ LeaseServedFor("active")
    /\ licenses = last.pre
    /\ now = WindowEnd(last.pre[LastKey])
    /\ last.resp.reason = "expired"

\* the request just served is an enable without a duration, through the web
\* form or through enable-license
EnableServed ==
    \/ last.op = "cli_enable"
    \/ last.op = "web_enable" /\ IsNone(last.args.days)

\* the request just served was turned down with an error
Rejected ==
    IF last.op = "cli_enable" THEN last.resp.exit # 0
    ELSE /\ "error" \in DOMAIN last.resp
         /\ last.resp.error # ""

\* C4: an enable, through any entry point, of a license whose window has
\* lapsed is rejected with an error and leaves the record as it was.
C4_EnableLapsedRejected ==
    (/\ EnableServed
     /\ LastKey \in DOMAIN last.pre
     /\ Lapsed(last.pre[LastKey], now))
        => /\ Rejected
           /\ licenses = last.pre

\* the lease decision for key k on table db at the present clock
LeaseNow(db, k) == issue_token(db, TOKEN_TTL_SECONDS, k, "lease-1")

\* the request just served is an enable of a stored, lapsed license that
\* carries a duration of at least one day
ReactivateServed ==
    /\ last.op = "web_enable"
    /\ LastKey \in DOMAIN last.pre
    /\ Lapsed(last.pre[LastKey], now)
    /\ ~IsNone(last.args.days)
    /\ ~ParseInt(strip(Value(last.args.days))).raised
    /\ ParseInt(strip(Value(last.args.days))).value >= 1

\* the duration carried by the enable just served
LastDays == ParseInt(strip(Value(last.args.days))).value

\* C5: reactivate(key, n) sets issuedAt to now, durationDays to n and status
\* to active and keeps key and note; a lease request made immediately
\* afterwards is allowed with license expiry now + n days, whatever the
\* previous status and window.
C5_ReactivateRestarts ==
    /\ ReactivateServed =>
          /\ licenses = [last.pre EXCEPT ![LastKey] =
                            LicenseRecord(last.pre[LastKey].license_key,
                                          to_rfc3339(now), LastDays, "active",
                                          last.pre[LastKey].note)]
          /\ LeaseNow(licenses, LastKey).allowed
          /\ LeaseNow(licenses, LastKey).license.license_expires_at
                = to_rfc3339(now + LastDays * SecondsPerDay)
    /\ last = Idle => \A k \in DOMAIN licenses, n \in 1..MaxDuration :
          /\ reactivate_license(licenses, k, to_rfc3339(now), n).result
          /\ LeaseNow(reactivate_license(licenses, k, to_rfc3339(now), n).db,
                      k).allowed

C5_Witness ==
    /\ ReactivateServed
    /\ last.pre[LastKey].status = "disabled"
    /\ licenses[LastKey].status = "active"
    /\ ~IsNone(licenses[LastKey].note)
    /\ LeaseNow(licenses, LastKey).allowed

\* the request just served wrote a window for key k: a reactivation, or (when
\* updates is TRUE) a duration update
WindowWrittenFor(k, updates) ==
    /\ last.key = Some(k)
    /\ \/ ReactivateServed
       \/ updates /\ last.op = "update_duration"

\* C6 as stated: a license whose window has lapsed stays denied across every
\* operation other than a reactivate of its key; create, disable, enable and
\* updateDuration never make its lease allowed again.
C6_OnlyReactivateRevives ==
    \A k \in DOMAIN last.pre :
        (Lapsed(last.pre[k], now) /\ ~WindowWrittenFor(k, FALSE))
            => ~LeaseNow(licenses, k).allowed

\* C6: a license whose window has lapsed stays denied across every operation
\* other than a reactivate or an updateDuration of its key; create, disable
\* and enable never make its lease allowed again.
C6_OnlyWindowWritesRevive ==
    \A k \in DOMAIN last.pre :
        (Lapsed(last.pre[k], now) /\ ~WindowWrittenFor(k, TRUE))
            => ~LeaseNow(licenses, k).allowed

C6_Witness ==
    /\ last.op = "cli_enable"
    /\ LastKey \in DOMAIN last.pre
    /\ Lapsed(last.pre[LastKey], now)
    /\ last.pre[LastKey].status = "disabled"
    /\ licenses[LastKey].status = "active"
    /\ LeaseNow(licenses, LastKey).reason = "expired"

\* C7: in every allowed response the lease is issued at the server time, which
\* is now, and expires TOKEN_TTL_SECONDS later, however little is left of the
\* license's window.
C7_LeaseFromNow ==
    (LeaseServed /\ last.resp.allowed) =>
        /\ last.resp.server_time = to_rfc3339(now)
        /\ last.resp.lease.issued_at = last.resp.server_time
        /\ last.resp.lease.expires_at = to_rfc3339(now + TOKEN_TTL_SECONDS)

C7_Witness ==
    /\ LeaseServed
    /\ last.resp.allowed
    /\ now + TOKEN_TTL_SECONDS > WindowEnd(last.pre[LastKey])
    /\ parse_rfc3339(last.resp.lease.expires_at).value
          > parse_rfc3339(last.resp.license.license_expires_at).value

\* a denial: exactly allowed = false, the reason and the server time
Denial(reason) ==
    [allowed |-> FALSE, reason |-> reason, server_time |-> to_rfc3339(now)]

\* C8: an unknown key, a disabled license and a lapsed window are each
\* answered by an ordinary response holding exactly allowed = false, the
\* reason (not_found, disabled, expired) and the server time.
C8_DenialsAreResponses ==
    LeaseServed =>
        /\ LastKey \notin DOMAIN last.pre => last.resp = Denial("not_found")
        /\ LeaseServedFor("disabled") => last.resp = Denial("disabled")
        /\ (LeaseServedFor("active") /\ Lapsed(last.pre[LastKey], now))
              => last.resp = Denial("expired")

C8_Witness ==
    /\ LeaseServed
    /\ LastKey \notin DOMAIN last.pre
    /\ last.pre # init_db
    /\ last.resp = Denial("not_found")

\* the table holding only the row of key k, if any
OnlyRow(db, k) == [j \in DOMAIN db \cap {k} |-> db[j]]

\* C9: a lease request leaves the table as it found it, and its response is
\* the one the stored record of its key and the clock alone determine.
C9_IssuanceStateless ==
    LeaseServed =>
        /\ licenses = last.pre
        /\ last.resp = LeaseNow(OnlyRow(last.pre, LastKey), LastKey)

C9_Witness ==
    /\ LeaseServed
    /\ last.resp.allowed
    /\ licenses = last.pre
    /\ Cardinality(DOMAIN licenses) = 2

\* the status a disable or enable request asks for
AskedStatus ==
    IF last.op \in {"cli_disable", "web_disable"} THEN "disabled" ELSE "active"

\* the request just served is a disable, or an enable that is not a
\* reactivation, of a stored license
FlipServed ==
    /\ \/ last.op \in {"cli_disable", "web_disable", "cli_enable"}
       \/ last.op = "web_enable"
    /\ LastKey \in DOMAIN last.pre
    /\ last.op = "web_enable" => ~Lapsed(last.pre[LastKey], now)

\* C10: disable and enable change the status and nothing else, also when the
\* web enable of a license that is not expired carries a duration; enabling
\* a license that is not expired makes its lease allowed with the expiry it
\* had before.
C10_StatusFlipOnly ==
    FlipServed =>
        /\ licenses = [last.pre EXCEPT ![LastKey].status = AskedStatus]
        /\ (AskedStatus = "active" /\ ~Lapsed(last.pre[LastKey], now))
              => /\ LeaseNow(licenses, LastKey).allowed
                 /\ LeaseNow(licenses, LastKey).license.license_expires_at
                       = to_rfc3339(WindowEnd(last.pre[LastKey]))

C10_Witness ==
    /\ FlipServed
    /\ last.op = "web_enable"
    /\ last.args.days = Some(<<"1">>)
    /\ last.pre[LastKey].status = "disabled"
    /\ last.pre[LastKey].duration_days = MaxDuration
    /\ licenses[LastKey].duration_days = MaxDuration
    /\ LeaseNow(licenses, LastKey).allowed

\* the outcome of an UPDATE that matched no row: false, nothing written
NotFound(done) == ~done.raised /\ ~done.result /\ done.db = licenses

\* the outcome of an UPDATE that wrote its row: true
Updated(done) == ~done.raised /\ done.result

\* the four lifecycle writes on key k, with duration d, all match no row
WritesNotFound(k, d) ==
    /\ NotFound(disable_license(licenses, k))
    /\ NotFound(enable_license(licenses, k))
    /\ NotFound(reactivate_license(licenses, k, to_rfc3339(now), d))
    /\ NotFound(update_license_duration(licenses, k, to_rfc3339(now), d))

\* the two status writes on key k return true
StatusWritesUpdated(k) ==
    /\ Updated(disable_license(licenses, k))
    /\ Updated(enable_license(licenses, k))

\* the two window writes on key k, with duration d, return true
WindowWritesUpdated(k, d) ==
    /\ Updated(reactivate_license(licenses, k, to_rfc3339(now), d))
    /\ Updated(update_license_duration(licenses, k, to_rfc3339(now), d))

\* an UPDATE refused by a CHECK constraint: an error, nothing written
Refused == [db |-> licenses, raised |-> TRUE, result |-> FALSE]

\* the request just served is a disable or an enable of a key with no record
StatusRequestOnMissing ==
    /\ last.op \in {"cli_disable", "web_disable", "cli_enable", "web_enable"}
    /\ LastKey \notin DOMAIN last.pre

\* the caller reports not-found
ReportsNotFound ==
    IF last.op \in {"cli_disable", "cli_enable"}
    THEN last.resp = CliResult(1, None, "License key not found")
    ELSE last.resp = RedirectError("License key not found")

\* C11 as stated: disable, enable, reactivate and updateDuration return false
\* on a key with no record and write nothing, and return true on every
\* existing key, whatever the duration passed.
C11_FoundIffTrue ==
    last = Idle => \A k \in RequestKeys, d \in DayInputs :
        IF k \in DOMAIN licenses
        THEN StatusWritesUpdated(k) /\ WindowWritesUpdated(k, d)
        ELSE WritesNotFound(k, d)

\* C11: disable, enable, reactivate and updateDuration return false on a key
\* with no record, create no record and leave the table unchanged, and the
\* callers report not-found; on an existing key they return true when the
\* duration passed is at least one day; a duration below one is refused by
\* the table's CHECK constraint with an error and nothing is written.
C11_NotFoundIsFalse ==
    /\ last = Idle => \A k \in RequestKeys, d \in DayInputs :
          IF k \notin DOMAIN licenses THEN WritesNotFound(k, d)
          ELSE /\ StatusWritesUpdated(k)
               /\ IF d >= 1 THEN WindowWritesUpdated(k, d)
                  ELSE /\ reactivate_license(licenses, k, to_rfc3339(now), d)
                             = Refused
                       /\ update_license_duration(licenses, k,
                                                  to_rfc3339(now), d) = Refused
    /\ StatusRequestOnMissing => (licenses = last.pre /\ ReportsNotFound)
    /\ (last.op = "update_duration" /\ LastKey \notin DOMAIN last.pre)
          => (licenses = last.pre /\ last.resp = [result |-> FALSE])

C11_Witness ==
    /\ StatusRequestOnMissing
    /\ last.op = "cli_disable"
    /\ last.pre # init_db
    /\ licenses = last.pre
    /\ last.resp.exit = 1

\* the request just served is an updateDuration of a stored license
DurationServed ==
    /\ last.op = "update_duration"
    /\ LastKey \in DOMAIN last.pre

\* row with the window (issued_at, d) and everything else as it was
WithWindow(row, issued_at, d) ==
    LicenseRecord(row.license_key, issued_at, d, row.status, row.note)

\* C12: updateDuration(key, issuedAt, durationDays) overwrites issuedAt and
\* durationDays of the record (for a duration the table accepts, that is at
\* least one day) and leaves its status unchanged: a disabled record stays
\* disabled and is still denied a lease with reason 'disabled', an active
\* record stays active.
C12_UpdateKeepsStatus ==
    /\ last = Idle =>
          \A k \in DOMAIN licenses, t \in IssuedAtInputs, d \in 1..MaxDuration :
             update_license_duration(licenses, k, t, d).db
                = [licenses EXCEPT ![k] = WithWindow(licenses[k], t, d)]
    /\ DurationServed =>
          /\ licenses[LastKey].status = last.pre[LastKey].status
          /\ last.args.days >= 1 =>
                licenses = [last.pre EXCEPT ![LastKey] =
                               WithWindow(last.pre[LastKey],
                                          last.args.issued_at, last.args.days)]
          /\ licenses[LastKey].status = "disabled"
                => LeaseNow(licenses, LastKey) = Denial("disabled")

C12_Witness ==
    /\ DurationServed
    /\ last.pre[LastKey].status = "disabled"
    /\ Lapsed(last.pre[LastKey], now)
    /\ ~Lapsed(licenses[LastKey], now)
    /\ licenses[LastKey].duration_days # last.pre[LastKey].duration_days
    /\ licenses[LastKey].status = "disabled"
    /\ LeaseNow(licenses, LastKey) = Denial("disabled")

\* the request just served is a create, from the CLI or the web form
CreateServed == last.op \in {"cli_create", "web_create"}

\* the days argument create_license received (the web form's text parsed)
CreateDays ==
    IF last.op = "cli_create" THEN last.args.days
    ELSE ParseInt(strip(last.args.days)).value

\* the key argument create_license received (a blank web field is no key)
CreateKey ==
    IF last.op = "cli_create" THEN last.key
    ELSE OrNone(strip(Value(last.key)))

\* create_license was called: the web form's days text was an integer
CreateCalled ==
    /\ CreateServed
    /\ last.op = "web_create" => ~ParseInt(strip(last.args.days)).raised

\* the request just served reported the failure `message` of create_license,
\* with the exit code the CLI gives it
CreateFailed(exit, message) ==
    IF last.op = "cli_create" THEN last.resp = CliResult(exit, None, message)
    ELSE last.resp = RedirectError(message)

\* C13: create with days < 1, or with an explicit key that is blank after
\* trimming, fails with InvalidArgument (ValueError, exit code 2 on the CLI):
\* no record is inserted and the table is unchanged.
C13_InvalidArgument ==
    CreateCalled =>
        /\ CreateDays < 1
              => /\ licenses = last.pre
                 /\ CreateFailed(2, "--days must be >= 1")
        /\ (/\ CreateDays >= 1
            /\ ~IsNone(CreateKey)
            /\ strip(Value(CreateKey)) = <<>>)
              => /\ licenses = last.pre
                 /\ CreateFailed(2, "--key must be non-empty")

C13_Witness ==
    /\ CreateCalled
    /\ CreateDays >= 1
    /\ CreateKey = Some(<<" ">>)
    /\ last.pre # init_db
    /\ licenses = last.pre
    /\ last.resp.exit = 2

\* create_license was called with an acceptable duration and an explicit,
\* non-blank key
ExplicitCreate ==
    /\ CreateCalled
    /\ CreateDays >= 1
    /\ ~IsNone(CreateKey)
    /\ strip(Value(CreateKey)) # <<>>

\* the failure texts of InvalidArgument and GenerationExhausted
OtherCreateFailures ==
    {"--days must be >= 1", "--key must be non-empty", "Days must be an integer.", "Failed to generate a unique license key"}

\* the failure text the request just served reported
FailureText ==
    IF last.op = "cli_create" THEN last.resp.stderr ELSE last.resp.error

\* C14: create with an explicit key that, once trimmed, is the key of an
\* existing record fails with DuplicateKey, reported differently from
\* GenerationExhausted and InvalidArgument, and leaves the existing record
\* (and the whole table) unchanged.
C14_DuplicateKey ==
    (ExplicitCreate /\ strip(Value(CreateKey)) \in DOMAIN last.pre)
        => /\ licenses = last.pre
           /\ CreateFailed(1, "License key already exists")
           /\ FailureText \notin OtherCreateFailures

C14_Witness ==
    /\ ExplicitCreate
    /\ Value(CreateKey) # KeyA
    /\ strip(Value(CreateKey)) = KeyA
    /\ KeyA \in DOMAIN last.pre
    /\ last.pre[KeyA].status = "disabled"
    /\ last.pre[KeyA].issued_at # to_rfc3339(now)
    /\ licenses = last.pre
    /\ FailureText = "License key already exists"

\* create_license was called with an acceptable duration and no key
GeneratedCreate ==
    /\ CreateCalled
    /\ CreateDays >= 1
    /\ IsNone(CreateKey)

\* the keys generate_key() can return in the retry loop
GeneratedKeys == {KeyA, KeyB}

\* the keys the create just served may insert under
CreateTargets ==
    IF ExplicitCreate THEN {strip(Value(CreateKey))} \ DOMAIN last.pre
    ELSE IF GeneratedCreate THEN GeneratedKeys \ DOMAIN last.pre
    ELSE {}

\* the create just served reported success
CreateSucceeded ==
    IF last.op = "cli_create"
    THEN last.resp.exit = 0 /\ last.resp.stdout # None
    ELSE last.resp = RedirectMessage("License created")

\* the table after the create just served is the table before plus one
\* record under key k: active, issued now, for the days asked
AddedUnder(k) ==
    /\ DOMAIN licenses = DOMAIN last.pre \cup {k}
    /\ \A j \in DOMAIN last.pre : licenses[j] = last.pre[j]
    /\ licenses[k].license_key = k
    /\ licenses[k].status = "active"
    /\ licenses[k].issued_at = to_rfc3339(now)
    /\ licenses[k].duration_days = CreateDays
    /\ LeaseNow(licenses, k).allowed

\* C15: a successful create adds exactly one record, with status active,
\* issuedAt = now, durationDays = days and the trimmed explicit key (or a
\* generated key when none was given); a lease request for that key
\* immediately afterwards is allowed.
C15_CreateAddsOne ==
    /\ (CreateServed /\ CreateSucceeded) =>
          /\ CreateCalled
          /\ \E k \in CreateTargets : AddedUnder(k)
    /\ (CreateCalled /\ CreateTargets # {}) => CreateSucceeded

C15_Witness ==
    /\ GeneratedCreate
    /\ CreateSucceeded
    /\ DOMAIN last.pre = {KeyA}
    /\ last.pre[KeyA].status = "disabled"
    /\ now > StartInstant
    /\ AddedUnder(KeyB)

\* the key the create just served returned to its caller (CLI output)
ReturnedKey == Value(last.resp.stdout).license_key

\* the create just served inserted one record, under a key that had none,
\* and changed no other
InsertedUnderFreeKey ==
    \E k \in GeneratedKeys \ DOMAIN last.pre :
        /\ DOMAIN licenses = DOMAIN last.pre \cup {k}
        /\ \A j \in DOMAIN last.pre : licenses[j] = last.pre[j]
        /\ last.op = "cli_create" => ReturnedKey = k

\* C16: create without an explicit key either inserts a record under a key
\* that was absent before the call, overwriting nothing and returning that
\* key, or, when all KEY_GENERATION_ATTEMPTS candidates collide, fails with
\* GenerationExhausted (RuntimeError) having inserted nothing.
C16_GeneratedKeyFresh ==
    GeneratedCreate =>
        IF GeneratedKeys \subseteq DOMAIN last.pre
        THEN /\ licenses = last.pre
             /\ CreateFailed(1, "Failed to generate a unique license key")
        ELSE CreateSucceeded /\ InsertedUnderFreeKey

C16_Witness ==
    /\ GeneratedCreate
    /\ last.op = "cli_create"
    /\ GeneratedKeys \subseteq DOMAIN last.pre
    /\ licenses = last.pre
    /\ last.resp.exit = 1
    /\ last.resp.stderr = "Failed to generate a unique license key"

\* durations below one, as a caller may pass them
BadDurations == {-1, 0}

\* the request just served asked for a duration below one day: a create, a
\* web enable of a stored lapsed license, or a duration update
BadDurationServed ==
    \/ CreateCalled /\ CreateDays < 1
    \/ /\ last.op = "web_enable"
       /\ LastKey \in DOMAIN last.pre
       /\ Lapsed(last.pre[LastKey], now)
       /\ ~IsNone(last.args.days)
       /\ ~ParseInt(strip(Value(last.args.days))).raised
       /\ ParseInt(strip(Value(last.args.days))).value < 1
    \/ DurationServed /\ last.args.days < 1

\* the request just served was refused with an error
Refusal ==
    IF last.op = "cli_create" THEN last.resp.exit # 0
    ELSE IF last.op = "update_duration" THEN last.resp = Raised("IntegrityError")
    ELSE last.resp.error # ""

\* a record for a key not in the table, with duration d
FreshRecord(k, d) == LicenseRecord(k, to_rfc3339(now), d, "active", None)

\* C17: every record of every reachable table has durationDays >= 1; a
\* create, reactivate or updateDuration that would write a duration below
\* one is rejected and leaves the table unchanged.
C17_DurationAtLeastOne ==
    /\ \A k \in DOMAIN licenses : licenses[k].duration_days >= 1
    /\ last = Idle => \A d \in BadDurations :
          /\ \A k \in DOMAIN licenses :
                /\ reactivate_license(licenses, k, to_rfc3339(now), d) = Refused
                /\ update_license_duration(licenses, k, to_rfc3339(now), d)
                      = Refused
          /\ \A k \in RequestKeys \ DOMAIN licenses :
                insert_license(licenses, FreshRecord(k, d))
                   = [db |-> licenses, raised |-> TRUE]
          /\ \A key \in CliKeyInputs, rng \in RngStreams :
                /\ create_license(licenses, d, key, None, rng).db = licenses
                /\ create_license(licenses, d, key, None, rng).raised
                      = "ValueError"
    /\ BadDurationServed => (licenses = last.pre /\ Refusal)

C17_Witness ==
    /\ BadDurationServed
    /\ last.op = "web_enable"
    /\ last.pre[LastKey].status = "disabled"
    /\ last.pre[LastKey].duration_days = MaxDuration
    /\ licenses = last.pre
    /\ last.resp = RedirectError("Days must be >= 1.")

\* C18: there is at most one record per key (an insert under a key that is
\* present is refused and every record is filed under its own key), and the
\* set of keys only grows: no request removes a record or changes its key,
\* so a key that was present is found by the lookup after any request.
C18_KeysUniqueAndKept ==
    /\ \A k \in DOMAIN licenses : licenses[k].license_key = k
    /\ last = Idle => \A k \in DOMAIN licenses, d \in 1..MaxDuration :
          insert_license(licenses, FreshRecord(k, d))
             = [db |-> licenses, raised |-> TRUE]
    /\ last # Idle =>
          /\ DOMAIN last.pre \subseteq DOMAIN licenses
          /\ Cardinality(DOMAIN licenses) <= Cardinality(DOMAIN last.pre) + 1
          /\ \A k \in DOMAIN last.pre :
                /\ get_license(licenses, k) # None
                /\ Value(get_license(licenses, k)).license_key
                      = last.pre[k].license_key

C18_Witness ==
    /\ last.op = "web_enable"
    /\ Cardinality(DOMAIN last.pre) = 2
    /\ licenses # last.pre
    /\ DOMAIN licenses = DOMAIN last.pre
    /\ get_license(licenses, LastKey) # get_license(last.pre, LastKey)

----------------------------------------------------------------------------
(* create_license under concurrent callers: each INSERT is one atomic      *)
(* statement of the shared table; the callers interleave between the       *)
(* statements.                                                              *)

\* create_license up to its first INSERT (license_admin.py 46-62, 66-74):
\* the arguments are checked and the first candidate is built
CallStarted(days, key, note, generated) ==
    IF days < 1
    THEN [IdleCall EXCEPT !.pc = "raised", !.raised = "ValueError"]
    ELSE IF ~IsNone(key) /\ strip(Value(key)) = <<>>
    THEN [IdleCall EXCEPT !.pc = "raised", !.raised = "ValueError"]
    ELSE IF ~IsNone(key)
    THEN [IdleCall EXCEPT !.pc = "insert", !.explicit = TRUE,
                          !.candidate = Some(LicenseRecord(strip(Value(key)), to_rfc3339(utc_now), days, "active", NormalizedNote(note)))]
    ELSE [IdleCall EXCEPT !.pc = "insert", !.attempt = 1,
                          !.generated = generated,
                          !.candidate = Some(Candidate(to_rfc3339(utc_now), days, NormalizedNote(note), generated, 1))]

\* the call after an INSERT that raised IntegrityError: the explicit-key
\* branch lets it propagate, the retry loop takes the next candidate or,
\* after the last attempt, raises RuntimeError
AfterCollision(call) ==
    IF call.explicit
    THEN [call EXCEPT !.pc = "raised", !.raised = "IntegrityError"]
    ELSE IF call.attempt >= KEY_GENERATION_ATTEMPTS
    THEN [call EXCEPT !.pc = "raised", !.raised = "RuntimeError"]
    ELSE [call EXCEPT !.attempt = @ + 1,
                      !.candidate = Some([Value(@) EXCEPT !.license_key = call.generated[call.attempt + 1]])]

\* caller c calls create_license(days, key, note)
CallCreate(c, days, key, note, generated) ==
    /\ calls[c].pc = "idle"
    /\ calls' = [calls EXCEPT ![c] = [CallStarted(days, key, note, generated) EXCEPT !.before = DOMAIN licenses]]
    /\ UNCHANGED <<licenses, now, last>>

\* the table and the call of caller c after its INSERT statement
Inserted(c, ins) ==
    /\ licenses' = ins.db
    /\ calls' = [calls EXCEPT ![c] = IF ins.raised THEN AfterCollision(@)
                                     ELSE [@ EXCEPT !.pc = "returned"]]

\* caller c executes insert_license for its candidate
InsertCandidate(c) ==
    /\ calls[c].pc = "insert"
    /\ Inserted(c, insert_license(licenses, Value(calls[c].candidate)))
    /\ UNCHANGED <<now, last>>

\* the clock advances between statements
TickCreate ==
    /\ \E t \in Instants : t > now /\ now' = t
    /\ UNCHANGED <<licenses, last, calls>>

NextCreate ==
    \/ TickCreate
    \/ \E c \in Callers, days \in DayInputs, key \in CliKeyInputs,
          note \in CliNoteInputs, rng \in RngStreams :
          CallCreate(c, days, key, note, rng)
    \/ \E c \in Callers : InsertCandidate(c)

SpecCreate == Init /\ [][NextCreate]_vars

\* caller c's create_license returned a record
Returned(c) == calls[c].pc = "returned"

\* the key caller c proposes, or returned
CallKey(c) == Value(calls[c].candidate).license_key

\* the callers whose create_license returned
ReturnedCallers == {c \in Callers : Returned(c)}

\* C19: when create operations run concurrently and propose the same key,
\* exactly one insert succeeds: no two creates return the same key, no
\* returned record is overwritten, the table holds one record per returned
\* create, an explicit create that lost observes DuplicateKey
\* (IntegrityError) and a generating create that lost retries with its next
\* candidate.
C19_CreateRaceSafe ==
    /\ \A c \in ReturnedCallers, e \in ReturnedCallers :
          CallKey(c) = CallKey(e) => c = e
    /\ \A c \in ReturnedCallers :
          /\ CallKey(c) \in DOMAIN licenses
          /\ CallKey(c) \notin calls[c].before
          /\ licenses[CallKey(c)] = Value(calls[c].candidate)
    /\ DOMAIN licenses = {CallKey(c) : c \in ReturnedCallers}
    /\ \A c \in Callers :
          /\ calls[c].raised = "IntegrityError"
                => /\ calls[c].explicit
                   /\ \E e \in ReturnedCallers \ {c} : CallKey(e) = CallKey(c)
          /\ calls[c].attempt > 1
                => \A a \in 1..(calls[c].attempt - 1) :
                      \E e \in ReturnedCallers \ {c} :
                         CallKey(e) = calls[c].generated[a]

C19_Witness ==
    /\ calls[1].before = {}
    /\ calls[2].before = {}
    /\ Returned(1)
    /\ Returned(2)
    /\ calls[1].attempt = 2
    /\ calls[2].attempt = 1
    /\ CallKey(2) = KeyA
    /\ CallKey(1) = KeyB

----------------------------------------------------------------------------
(* Requests for different keys *)

\* the requests that name a key
KeyedOps ==
    {"lease", "cli_disable", "cli_enable", "web_enable", "web_reactivate", "update_duration", "create"}

\* the outcome [db, resp] of request op for key k on table db
Apply(op, k, db) ==
    CASE op = "lease" -> create_token(db, k, "lease-1")
      [] op = "cli_disable" -> _handle_disable_license(db, k)
      [] op = "cli_enable" -> _handle_enable_license(db, k)
      [] op = "web_enable" -> enable_license_view(db, k, None)
      [] op = "web_reactivate" -> enable_license_view(db, k, Some(<<"1">>))
      [] op = "update_duration" -> DurationUpdated(update_license_duration(db, k, to_rfc3339(utc_now), MaxDuration))
      [] op = "create" -> _handle_create_license(db, 1, Some(Padded(k)), None, << >>)

\* the keys whose record differs between tables db and pre
ChangedKeys(pre, db) ==
    {j \in DOMAIN db \cup DOMAIN pre :
        j \notin DOMAIN db \/ j \notin DOMAIN pre \/ db[j] # pre[j]}

\* the keys the request just served is about: none for a request that
\* names no key
OperationKeys ==
    IF CreateServed THEN CreateTargets
    ELSE IF IsNone(last.key) THEN {} ELSE {LastKey}

\* request p for key k and request q for key j give the same table and the
\* same two responses in both orders
Commute(p, k, q, j) ==
    LET first_p == Apply(p, k, licenses)
        first_q == Apply(q, j, licenses)
        then_q == Apply(q, j, first_p.db)
        then_p == Apply(p, k, first_q.db)
    IN  /\ then_q.db = then_p.db
        /\ then_p.resp = first_p.resp
        /\ then_q.resp = first_q.resp

\* request p for key k reads and writes the record of k only
Local(p, k) ==
    LET whole == Apply(p, k, licenses)
        alone == Apply(p, k, OnlyRow(licenses, k))
    IN  /\ ChangedKeys(licenses, whole.db) \subseteq {k}
        /\ alone.resp = whole.resp
        /\ alone.db = OnlyRow(whole.db, k)

\* C20: a request for key k (create, disable, enable, reactivate,
\* updateDuration, lease request) leaves every record with another key
\* unchanged, and requests for different keys give the same outcomes in
\* either order.
C20_DifferentKeysIndependent ==
    /\ last # Idle => ChangedKeys(last.pre, licenses) \subseteq OperationKeys
    /\ last = Idle =>
          /\ \A p \in KeyedOps, k \in RequestKeys : Local(p, k)
          /\ \A p \in KeyedOps, q \in KeyedOps : Commute(p, KeyA, q, KeyB)

C20_Witness ==
    /\ last.op = "web_enable"
    /\ LastKey = KeyB
    /\ ChangedKeys(last.pre, licenses) = {KeyB}
    /\ KeyA \in DOMAIN licenses
    /\ licenses[KeyA].status = "disabled"
    /\ Lapsed(licenses[KeyA], now)

----------------------------------------------------------------------------
(* Writes racing on one key: each of disable_license, enable_license,      *)
(* reactivate_license and update_license_duration is one UPDATE statement  *)
(* of the shared table; a caller fixes its arguments when it is called and *)
(* its statement commits later, in any order with the other caller's.      *)

\* the key the writers race on
RaceKey == KeyA

\* the table after create_license(days = 1, key = RaceKey) on the empty table
RaceTable ==
    create_license(init_db, 1, Some(RaceKey), None, << >>).db

\* the writes of app/db.py
WriteOps == {"disable", "enable", "reactivate", "update_duration"}

\* a caller that has not been called
IdleWrite ==
    [pc |-> "idle", op |-> "none", issued_at |-> to_rfc3339(StartInstant),
     days |-> 0, order |-> 0, wrote |-> FALSE]

\* the UPDATE of a called writer, executed on table db
WriteOutcome(call, db) ==
    CASE call.op = "disable" -> disable_license(db, RaceKey)
      [] call.op = "enable" -> enable_license(db, RaceKey)
      [] call.op = "reactivate" -> reactivate_license(db, RaceKey, call.issued_at, call.days)
      [] call.op = "update_duration" -> update_license_duration(db, RaceKey, call.issued_at, call.days)

\* the number of statements committed so far
Committed == Cardinality({c \in Callers : calls[c].pc = "done"})

InitWrites ==
    /\ now = StartInstant
    /\ licenses = RaceTable
    /\ last = Idle
    /\ calls = [c \in Callers |-> IdleWrite]

\* caller c is called with its arguments: issued_at is the clock read now
\* (or, for update_duration, the window start the operator chose)
CallWrite(c, op, issued_at, days) ==
    /\ calls[c].pc = "idle"
    /\ calls' = [calls EXCEPT ![c] = [IdleWrite EXCEPT !.pc = "called", !.op = op, !.issued_at = issued_at, !.days = days]]
    /\ UNCHANGED <<licenses, now, last>>

\* the UPDATE of caller c commits
CommitWrite(c) ==
    /\ calls[c].pc = "called"
    /\ licenses' = WriteOutcome(calls[c], licenses).db
    /\ calls' = [calls EXCEPT ![c] = [@ EXCEPT !.pc = "done", !.order = Committed + 1, !.wrote = WriteOutcome(calls[c], licenses).result]]
    /\ UNCHANGED <<now, last>>

\* the clock advances between statements
TickWrites ==
    /\ \E t \in Instants : t > now /\ now' = t
    /\ UNCHANGED <<licenses, last, calls>>

NextWrites ==
    \/ TickWrites
    \/ \E c \in Callers, op \in WriteOps, issued_at \in IssuedAtInputs,
          days \in DayInputs : CallWrite(c, op, issued_at, days)
    \/ \E c \in Callers : CommitWrite(c)

SpecWrites == InitWrites /\ [][NextWrites]_vars

\* the callers whose committed UPDATE wrote one of the columns `ops` write
WritersOf(ops) ==
    {c \in Callers : calls[c].pc = "done" /\ calls[c].wrote /\ calls[c].op \in ops}

\* the caller of S whose statement committed last
LastCommitted(S) == CHOOSE c \in S : \A e \in S : calls[e].order <= calls[c].order

\* the status the write of caller c sets
StatusSet(c) == IF calls[c].op = "disable" THEN "disabled" ELSE "active"

\* the callers that wrote the status / the window
StatusWriters == WritersOf({"disable", "enable", "reactivate"})
WindowWriters == WritersOf({"reactivate", "update_duration"})

\* C21: for writes racing on one key the last write wins and each write is
\* atomic: the stored status is the one set by the status-writing statement
\* that committed last, and (issuedAt, durationDays) is the pair one single
\* reactivate, updateDuration or create wrote, never a mix of two writes.
C21_LastWriteWins ==
    /\ licenses[RaceKey].status =
          IF StatusWriters = {} THEN "active"
          ELSE StatusSet(LastCommitted(StatusWriters))
    /\ <<licenses[RaceKey].issued_at, licenses[RaceKey].duration_days>> =
          IF WindowWriters = {} THEN <<to_rfc3339(StartInstant), 1>>
          ELSE <<calls[LastCommitted(WindowWriters)].issued_at, calls[LastCommitted(WindowWriters)].days>>

C21_Witness ==
    /\ calls[1].op = "reactivate"
    /\ calls[2].op = "update_duration"
    /\ WindowWriters = {1, 2}
    /\ calls[1].order = 2
    /\ parse_rfc3339(calls[1].issued_at).value < parse_rfc3339(calls[2].issued_at).value
    /\ calls[1].days # calls[2].days
    /\ licenses[RaceKey].issued_at = calls[1].issued_at
    /\ licenses[RaceKey].duration_days = calls[1].days

----------------------------------------------------------------------------
(* The effective status in the admin listing *)

\* the request just served is the license listing
ListServed == last.op = "web_list"

\* the rows of the listing just served
ListedRows == last.resp.licenses

\* row i of the listing reports the license as usable
ListedActive(i) ==
    /\ ListedRows[i].display_status = "active"
    /\ ListedRows[i].action_mode = "disable"

\* row i of the listing reports the license as disabled
ListedDisabled(i) ==
    /\ ListedRows[i].display_status = "disabled"
    /\ ListedRows[i].action_mode = "enable"

\* C22: the listing reports every stored license once, as active (action
\* disable) exactly when a lease request for its key at the same instant is
\* allowed and as disabled otherwise, and it reports disabled with
\* requires_duration exactly when the instant is at or after issuedAt +
\* durationDays days.
C22_ListingMatchesLease ==
    ListServed =>
        /\ last.resp.total = Cardinality(DOMAIN licenses)
        /\ Len(ListedRows) = last.resp.total
        /\ {ListedRows[i].license_key : i \in 1..Len(ListedRows)} = DOMAIN licenses
        /\ \A i \in 1..Len(ListedRows) :
              /\ ListedActive(i) \/ ListedDisabled(i)
              /\ ListedActive(i) <=>
                     LeaseNow(licenses, ListedRows[i].license_key).allowed
              /\ ListedRows[i].requires_duration <=>
                     Lapsed(licenses[ListedRows[i].license_key], now)
              /\ (ListedDisabled(i) /\ ListedRows[i].requires_duration) <=>
                     Lapsed(licenses[ListedRows[i].license_key], now)
              /\ ListedRows[i].is_expired = ListedRows[i].requires_duration

\* the listing shows a license stored as active whose window has lapsed, and
\* a second license that is still usable
C22_Witness ==
    /\ ListServed
    /\ Len(ListedRows) = 2
    /\ \E i \in 1..2 :
          /\ ListedRows[i].status = "active"
          /\ ListedDisabled(i)
          /\ ListedRows[i].requires_duration
    /\ \E i \in 1..2 : ListedActive(i)

----------------------------------------------------------------------------
(* The functions of app/service.py and app/license_admin.py applied to     *)
(* drawn inputs: the clock is drawn once, and every call is one request.    *)

\* the dates drawn: the first day and the last days of every month
DateInputs ==
    { DateTime(c[1], c[2], c[3], 0, 0, 0) :
        c \in { c \in (2023..(2023 + MaxYears)) \X (1..12) \X {1, 28, 29, 30, 31} :
                  c[3] <= DaysInMonth(c[1], c[2]) } }

\* the times of day drawn: midnight and 12:34:56
TimeInputs == {0, 12 * 3600 + 34 * 60 + 56}

InstantInputs == { d + t : d \in DateInputs, t \in TimeInputs }

\* the timestamps offered to parse_rfc3339: the clock as to_rfc3339 prints
\* it, and its fields with no offset and with other offsets
TimestampInputs ==
    { [to_rfc3339(utc_now) EXCEPT !.offset = o] :
        o \in {"Z", "naive", "+02:00", "-05:30"} }

\* the breakdowns offered to format_remaining_time, one of them a dict
\* without the keys of its zero components
RemainingInputs ==
    [years : {0, 2}, months : {0, 11}, days : {0, 17}, hours : {0, 4},
     minutes : {0, 59}, seconds : {0, 9}]
    \cup {[days |-> 17, hours |-> 4, seconds |-> 9]}

\* the draws of random.choice over one generate_key(): every position of
\* KEY_ALPHABET is drawn at every place of the key
ChoiceInputs ==
    { [i \in 1..(KEY_SEGMENTS * KEY_SEGMENT_LENGTH) |->
          ((o + i * st) % Len(KEY_ALPHABET)) + 1] :
        o \in 0..(Len(KEY_ALPHABET) - 1), st \in 0..MaxStride }

\* the notes offered to create_license (--note) and to the create form
NoteInputs ==
    {None, Some(<<>>), Some(<<" ">>), Some(<<"n">>), Some(<<" ", "n">>)}
FormNotes == {<<>>, <<" ">>, <<"n">>}

InitFunctions ==
    /\ now \in InstantInputs
    /\ licenses = init_db
    /\ last = Idle
    /\ calls = NoCalls

SplitRemainingTime(expires_at) ==
    Serve("split_remaining_time", None, [expires_at |-> expires_at],
          [db |-> licenses, resp |-> split_remaining_time(utc_now, expires_at)])

AddMonths(months) ==
    Serve("_add_months", None, [months |-> months],
          [db |-> licenses, resp |-> [value |-> _add_months(utc_now, months)]])

FormatRemainingTime(remaining_time) ==
    Serve("format_remaining_time", None, [remaining_time |-> remaining_time],
          [db |-> licenses,
           resp |-> [label |-> format_remaining_time(remaining_time)]])

ParseTimestamp(text) ==
    Serve("parse_rfc3339", None, [text |-> text],
          [db |-> licenses, resp |-> parse_rfc3339(text)])

FormatLicense(days) ==
    Serve("format_license", None, [days |-> days],
          [db |-> licenses,
           resp |-> format_license(
                        LicenseRecord(KeyA, to_rfc3339(utc_now), days,
                                      "active", None))])

GenerateKey(choices) ==
    Serve("generate_key", None, [choices |-> choices],
          [db |-> licenses, resp |-> [key |-> generate_key(choices)]])

NextFunctions ==
    \/ \E expires_at \in InstantInputs : SplitRemainingTime(expires_at)
    \/ \E months \in 0..MaxMonths : AddMonths(months)
    \/ \E remaining_time \in RemainingInputs :
          FormatRemainingTime(remaining_time)
    \/ \E text \in TimestampInputs : ParseTimestamp(text)
    \/ \E days \in 1..MaxDuration : FormatLicense(days)
    \/ \E choices \in ChoiceInputs : GenerateKey(choices)
    \/ \E note \in NoteInputs, rng \in RngStreams :
          CliCreateLicense(1, None, note, rng)
    \/ \E note \in FormNotes, rng \in RngStreams :
          WebCreateLicense(<<"1">>, <<>>, note, rng)

SpecFunctions == InitFunctions /\ [][NextFunctions]_vars

----------------------------------------------------------------------------
(* The remaining-time breakdown *)

SplitServed == last.op = "split_remaining_time"

SplitKeys == {"years", "months", "days", "hours", "minutes", "seconds"}

\* C23: split_remaining_time returns six non-negative integers for every
\* input, and all of them are zero when expiresAt <= now.
C23_ExpiredIsZero ==
    SplitServed =>
        /\ DOMAIN last.resp = SplitKeys
        /\ \A k \in SplitKeys : last.resp[k] \in Nat
        /\ last.args.expires_at <= now =>
              \A k \in SplitKeys : last.resp[k] = 0

C23_Witness ==
    /\ SplitServed
    /\ last.args.expires_at < now
    /\ \A k \in SplitKeys : last.resp[k] = 0

\* C24: from 2024-01-31T00:00:00Z to 2024-03-31T00:00:00Z the breakdown is
\* 0 years, 2 months, 0 days, 0 hours, 0 minutes, 0 seconds.
C24_ShortMonth ==
    (/\ SplitServed
     /\ now = DateTime(2024, 1, 31, 0, 0, 0)
     /\ last.args.expires_at = DateTime(2024, 3, 31, 0, 0, 0))
    => last.resp = [years |-> 0, months |-> 2, days |-> 0, hours |-> 0,
                    minutes |-> 0, seconds |-> 0]

\* value advanced `count` times by `step` clamped calendar months
RECURSIVE Advanced(_, _, _)
Advanced(value, step, count) ==
    IF count = 0 THEN value
    ELSE CHOOSE reached \in { Advanced(next, step, count - 1) :
                                  next \in {_add_months(value, step)} } : TRUE

\* the instant reached by replaying a breakdown from `value`
Replayed(value, b) ==
    Advanced(Advanced(value, 12, b.years), 1, b.months)
    + b.days * 86400 + b.hours * 3600 + b.minutes * 60 + b.seconds

----------------------------------------------------------------------------
(* The label of a breakdown *)

FormatServed == last.op = "format_remaining_time"

\* the component of unit i of a breakdown, followed by a space, if it is
\* not zero
Component(b, i) ==
    IF GetUnit(b, Units[i].key) = 0 THEN <<>>
    ELSE IntText(GetUnit(b, Units[i].key)) \o Units[i].suffix \o <<" ">>

Components(b) ==
    Component(b, 1) \o Component(b, 2) \o Component(b, 3) \o Component(b, 4)
    \o Component(b, 5) \o Component(b, 6)

\* C25: the label is the non-zero components in the order years, months,
\* days, hours, minutes, seconds with the suffixes y, mo, d, h, m, s, joined
\* by single spaces; the all-zero breakdown is labelled "0s"; days 17,
\* hours 4, seconds 9 is labelled "17d 4h 9s".
C25_LabelOfNonZero ==
    FormatServed =>
        /\ <<Units[1].suffix, Units[2].suffix, Units[3].suffix, Units[4].suffix, Units[5].suffix, Units[6].suffix>> = <<(<<"y">>), <<"m", "o">>, <<"d">>, <<"h">>, <<"m">>, <<"s">>>>
        /\ last.resp.label =
              IF Components(last.args.remaining_time) = <<>>
              THEN <<"0", "s">>
              ELSE SubSeq(Components(last.args.remaining_time), 1,
                          Len(Components(last.args.remaining_time)) - 1)
        /\ (\A k \in DOMAIN last.args.remaining_time :
               last.args.remaining_time[k] = 0)
           => last.resp.label = <<"0", "s">>
        /\ last.args.remaining_time = [days |-> 17, hours |-> 4, seconds |-> 9]
           => last.resp.label = <<"1", "7", "d", " ", "4", "h", " ", "9", "s">>

C25_Witness ==
    /\ FormatServed
    /\ last.args.remaining_time =
          [years |-> 0, months |-> 0, days |-> 17, hours |-> 4,
           minutes |-> 0, seconds |-> 9]
    /\ last.resp.label = <<"1", "7", "d", " ", "4", "h", " ", "9", "s">>

----------------------------------------------------------------------------
(* The timestamp codec *)

ParseServed == last.op = "parse_rfc3339"

FormatLicenseServed == last.op = "format_license"

\* the record whose stored issued_at is the one a payload prints
Reprinted(payload) ==
    LicenseRecord(payload.license_key, payload.issued_at,
                  payload.duration_days, payload.status, payload.note)

\* C26: parse_rfc3339(to_rfc3339(t)) = t for every instant t at second
\* precision, so that expiresAt = issuedAt + durationDays days is the same
\* however often the stored issuedAt is printed and parsed; text without
\* timezone information is refused.
C26_CodecRoundTrip ==
    /\ (ParseServed /\ last.args.text = to_rfc3339(now)) =>
          (~last.resp.raised /\ last.resp.value = now)
    /\ (ParseServed /\ last.args.text.offset = "naive") => last.resp.raised
    /\ FormatLicenseServed =>
          /\ parse_rfc3339(last.resp.issued_at).value = now
          /\ parse_rfc3339(last.resp.license_expires_at).value =
                now + last.args.days * 86400
          /\ format_license(Reprinted(last.resp)) = last.resp
          /\ format_license(Reprinted(format_license(Reprinted(last.resp))))
                = last.resp

C26_Witness ==
    /\ ParseServed
    /\ last.args.text = to_rfc3339(now)
    /\ last.args.text.second = 56
    /\ last.args.text.day = 29
    /\ last.args.text.month = 2
    /\ last.resp.value = now

----------------------------------------------------------------------------
(* The form of a generated key *)

KeyServed == last.op = "generate_key"

\* the 32 symbols of a key: the capital letters without I and O, and the
\* digits without 0 and 1
KeySymbols ==
    {"A", "B", "C", "D", "E", "F", "G", "H", "J", "K", "L", "M", "N", "P",
     "Q", "R", "S", "T", "U", "V", "W", "X", "Y", "Z", "2", "3", "4", "5",
     "6", "7", "8", "9"}

\* C27: a generated key is XXXX-XXXX-XXXX: three groups of four characters
\* of the 32-symbol alphabet, joined by hyphens.
C27_KeyFormat ==
    /\ Cardinality(KeySymbols) = 32
    /\ KeyServed =>
          /\ Len(last.resp.key) = 14
          /\ \A i \in 1..14 :
                IF i \in {5, 10} THEN last.resp.key[i] = "-"
                ELSE last.resp.key[i] \in KeySymbols

C27_Witness ==
    /\ KeyServed
    /\ last.resp.key[1] = "9"
    /\ last.resp.key[2] = "A"
    /\ last.resp.key[14] = "L"

----------------------------------------------------------------------------
(* The note of a created license *)

\* a license has just been created from the command line with note `note`
CreatedWithNote(note) ==
    /\ last.op = "cli_create"
    /\ last.args.note = note
    /\ DOMAIN licenses # DOMAIN last.pre

\* the note stored by the create just served
StoredNote == licenses[CHOOSE k \in DOMAIN licenses \ DOMAIN last.pre : TRUE].note

\* C28: create stores an empty or blank (whitespace only) note as absent,
\* and a non-blank note as given.
C28_NoteNormalized ==
    /\ \A note \in NoteInputs :
          CreatedWithNote(note) =>
              StoredNote = IF IsNone(note) \/ strip(Value(note)) = <<>>
                           THEN None ELSE note
    /\ \A note \in FormNotes :
          (/\ last.op = "web_create"
           /\ last.args.note = note
           /\ DOMAIN licenses # DOMAIN last.pre) =>
              StoredNote = IF strip(note) = <<>> THEN None ELSE Some(note)

----------------------------------------------------------------------------
(* Calendar months *)

AddServed == last.op = "_add_months"

\* the number of its month counted from year 0
MonthNumber(f) == f.year * 12 + f.month

\* C30: _add_months(value, m) with m >= 0 is a date of the calendar month m
\* months after value's month, at value's time of day, on the day
\* min(value.day, last day of that month), and is later than value when
\* m >= 1.
C30_ClampedMonths ==
    AddServed =>
        /\ MonthNumber(Fields(last.resp.value)) =
              MonthNumber(Fields(now)) + last.args.months
        /\ Fields(last.resp.value).day =
              Min(Fields(now).day,
                  DaysInMonth(Fields(last.resp.value).year,
                              Fields(last.resp.value).month))
        /\ last.resp.value % 86400 = now % 86400
        /\ last.args.months >= 1 => last.resp.value > now

C30_Witness ==
    /\ AddServed
    /\ last.args.months = 1
    /\ Fields(now).month = 1
    /\ Fields(now).day = 31
    /\ Fields(last.resp.value).month = 2
    /\ Fields(last.resp.value).day \in {28, 29}

----------------------------------------------------------------------------
(* The loops of split_remaining_time and of create_license, one iteration   *)
(* at a time: a call is in progress in `calls` from its first statement to  *)
(* its return.                                                              *)

\* the clock values of the calls: the first and the last day of the first
\* month drawn
LoopNows == {DateTime(2023, 1, 1, 0, 0, 0), DateTime(2023, 1, 31, 0, 0, 0)}

\* the caller whose call is followed
LoopCaller == CHOOSE c \in Callers : TRUE

\* the tables of the calls: empty, holding the first generated key, and
\* holding every key the generator returns
LoopTables ==
    {init_db, RaceTable,
     create_license(RaceTable, 1, Some(KeyB), None, << >>).db}

InitLoops ==
    /\ now \in LoopNows
    /\ licenses \in LoopTables
    /\ licenses = init_db \/ now = CHOOSE t \in LoopNows : \A u \in LoopNows : t <= u
    /\ last = Idle
    /\ calls = NoCalls

\* split_remaining_time(now, expires_at) up to its first loop (service.py
\* 44-55)
SplitStarted(now_, expires_at) ==
    [pc |-> IF expires_at <= now_ THEN "returned" ELSE "years",
     cursor |-> now_, expires_at |-> expires_at, years |-> 0, months |-> 0,
     result |-> IF expires_at <= now_
                THEN Some(split_remaining_time(now_, expires_at)) ELSE None]

\* one iteration of the year loop (service.py 56-61)
YearsIterated(call, next_cursor) ==
    IF next_cursor > call.expires_at THEN [call EXCEPT !.pc = "months"]
    ELSE [call EXCEPT !.years = @ + 1, !.cursor = next_cursor]

\* one iteration of the month loop (service.py 64-69), followed after its
\* break by the split of the residual and the return (71-83)
MonthsIterated(call, next_cursor) ==
    IF next_cursor > call.expires_at
    THEN [call EXCEPT !.pc = "returned",
                      !.result = Some(SplitSeconds(call.years, call.months,
                                          Max(0, call.expires_at - call.cursor)))]
    ELSE [call EXCEPT !.months = @ + 1, !.cursor = next_cursor]

\* no call is in progress or over
NoneCalled == \A c \in Callers : calls[c].pc = "idle"

CallSplit(c, expires_at) ==
    /\ NoneCalled
    /\ licenses = init_db
    /\ calls' = [calls EXCEPT ![c] = SplitStarted(utc_now, expires_at)]
    /\ UNCHANGED <<licenses, now, last>>

StepYears(c) ==
    /\ calls[c].pc = "years"
    /\ calls' = [calls EXCEPT ![c] = YearsIterated(@, _add_months(@.cursor, 12))]
    /\ UNCHANGED <<licenses, now, last>>

StepMonths(c) ==
    /\ calls[c].pc = "months"
    /\ calls' = [calls EXCEPT ![c] = MonthsIterated(@, _add_months(@.cursor, 1))]
    /\ UNCHANGED <<licenses, now, last>>

CallCreateAlone(c, rng) ==
    /\ NoneCalled
    /\ CallCreate(c, 1, None, None, rng)

\* the statements of the calls in progress
StepLoops ==
    \E c \in Callers : StepYears(c) \/ StepMonths(c) \/ InsertCandidate(c)

NextLoops ==
    \/ \E expires_at \in DateInputs : CallSplit(LoopCaller, expires_at)
    \/ \E rng \in RngStreams : CallCreateAlone(LoopCaller, rng)
    \/ StepLoops

\* a call in progress executes its next statement
SpecLoops == InitLoops /\ [][NextLoops]_vars /\ WF_vars(StepLoops)

\* caller c is inside a loop / is out of its call
InLoop(c) == calls[c].pc \in {"years", "months", "insert"}
CallOver(c) == calls[c].pc \in {"returned", "raised"}

\* an iteration of caller c's year or month loop accepts its advance
Accepts(c) ==
    /\ calls[c].pc \in {"years", "months"}
    /\ calls'[c].years + calls'[c].months > calls[c].years + calls[c].months

\* an accepted advance moves the cursor forward and not past expires_at
MovesForward ==
    \A c \in Callers :
        Accepts(c) => /\ calls'[c].cursor > calls[c].cursor
                      /\ calls'[c].cursor <= calls[c].expires_at

\* the retry loop of caller c has made at most KEY_GENERATION_ATTEMPTS
\* inserts, and gives up only after the last one
AttemptsBounded ==
    \A c \in Callers :
        "attempt" \in DOMAIN calls[c] =>
            /\ calls[c].attempt <= 100
            /\ calls[c].raised = "RuntimeError" => calls[c].attempt = 100

\* C31: split_remaining_time terminates for every (now, expiresAt): every
\* accepted advance of the year loop and of the month loop moves the cursor
\* strictly forward, and both loops are left; create without an explicit key
\* returns or raises after at most 100 insert attempts.
C31_LoopsTerminate ==
    /\ [][MovesForward]_vars
    /\ []AttemptsBounded
    /\ \A c \in Callers : InLoop(c) ~> CallOver(c)

\* a call of split_remaining_time has left both loops after accepted
\* advances in each, with the breakdown the function returns
C31_Witness ==
    \E c \in Callers :
        /\ calls[c].pc = "returned"
        /\ "cursor" \in DOMAIN calls[c]
        /\ calls[c].years >= 1
        /\ calls[c].months >= 1
        /\ calls[c].result = Some(split_remaining_time(now, calls[c].expires_at))

-----------------------------------------------------------------------------
(* The web enable handler next to concurrent writes: app/web_admin.py,      *)
(* app/db.py. get_license and the UPDATE that follows it each open their    *)
(* own connection, so other statements commit between the two.              *)

\* the table after create_license(days = MaxDuration, key = RaceKey)
EnableTable ==
    create_license(init_db, MaxDuration, Some(RaceKey), None, << >>).db

\* the writes that run next to the handler
ConcurrentOps == {"disable", "reactivate", "update_duration"}

\* the form field days of the enable request
EnableDays == {None, Some(IntText(1))}

InitEnable ==
    /\ now = StartInstant
    /\ licenses \in {EnableTable, disable_license(EnableTable, RaceKey).db}
    /\ last = Idle
    /\ calls = [c \in Callers |-> IdleWrite]

\* enable_license_view up to its expiry check: the record and the clock are read
EnableRead(c, days) ==
    /\ calls[c].pc = "idle"
    /\ calls' = [calls EXCEPT ![c] = [pc |-> "read", op |-> "web_enable", found |-> get_license(licenses, RaceKey), now |-> utc_now, days |-> days, order |-> 0, wrote |-> FALSE, resp |-> RedirectMessage("")]]
    /\ UNCHANGED <<licenses, now, last>>

\* the rest of enable_license_view for the record and the clock it read, on table db
EnableDecided(call, db) ==
    IF IsNone(call.found)
    THEN [db |-> db, resp |-> RedirectError("License key not found")]
    ELSE EnableRecord(db, RaceKey, call.days, Value(call.found), call.now,
                      parse_rfc3339(Value(call.found).issued_at))

\* enable_license_view from its expiry check on: the UPDATE commits
EnableWrite(c) ==
    /\ calls[c].pc = "read"
    /\ licenses' = EnableDecided(calls[c], licenses).db
    /\ calls' = [calls EXCEPT ![c] = [@ EXCEPT !.pc = "done", !.order = Committed + 1, !.wrote = EnableDecided(calls[c], licenses).resp.error = "", !.resp = EnableDecided(calls[c], licenses).resp]]
    /\ UNCHANGED <<now, last>>

NextEnable ==
    \/ TickWrites
    \/ \E c \in Callers, op \in ConcurrentOps, issued_at \in IssuedAtInputs,
          days \in DayInputs : CallWrite(c, op, issued_at, days)
    \/ \E c \in Callers : CommitWrite(c)
    \/ \E c \in Callers, days \in EnableDays : EnableRead(c, days)
    \/ \E c \in Callers : EnableWrite(c)

SpecEnable == InitEnable /\ [][NextEnable]_vars

\* the step is the UPDATE of enable_license of caller c's enable request
EnablesNow(c) ==
    /\ calls[c].pc = "read"
    /\ calls'[c].pc = "done"
    /\ calls'[c].resp = RedirectMessage("License enabled")

====
